---- MODULE Spec2Model ----
(***************************************************************************)
(* Model of the video_apirest core:                                        *)
(*   - convertToHls (src/utils/hls.js, first definition, lines 40-291):    *)
(*     probe, rendition planning, concurrent encode jobs, joint await,     *)
(*     master playlist write;                                              *)
(*   - BackblazeB2 (src/back.js): session, uploadFile, listFiles,          *)
(*     the upload history ledger and uploadDirectoryToB2.                  *)
(*   - the POST /b2/upload-hls handler (src/routes/b2get.js), the video    *)
(*     ids given by multer's filename callbacks, the remote key of an      *)
(*     upload task and searchFilesByName;                                  *)
(*   - ensureDirExists (src/utils/hls.js), the POST /upload and            *)
(*     GET /videos handlers and getDownloadUrlWithToken (src/back.js);     *)
(*   - the sync of an output directory and the catalog-indexed second      *)
(*     definition of convertToHls (src/utils/metadata.js).                 *)
(* Each part has its own specification over the same variables.            *)
(***************************************************************************)
EXTENDS Integers, Sequences, FiniteSets, TLC

\* ------------------------------------------------------------------------
\* Part 1: convertToHls
\* ------------------------------------------------------------------------

\* State of one convertToHls run.
VARIABLES hpc, source, targetResolutions, job, masterPlaylistContent,
          manifestFile, herror

\* State of one BackblazeB2 instance, its callers and the B2 server.
VARIABLES config, epoch, uploadHistory, calls, syncs

hlsVars == <<hpc, source, targetResolutions, job, masterPlaylistContent,
             manifestFile, herror>>

\* State of one POST /b2/upload-hls request (src/routes/b2get.js).
VARIABLES route

\* The clock read by Date.now() and the uploads accepted by multer.
VARIABLES now, accepted

\* One evaluation of the remote key of an upload task.
VARIABLES keyed

\* One searchFilesByName invocation and the container it searches.
VARIABLES search

b2Vars == <<config, epoch, uploadHistory, calls, syncs>>

routeVars == <<route>>

idVars == <<now, accepted>>

keyVars == <<keyed>>

searchVars == <<search>>

\* The directory path the ensureDirExists callers share, and the callers.
VARIABLES dirState, ensure

\* State of one POST /upload request (src/routes/upload.js).
VARIABLES upload

\* State of one GET /videos request (src/routes/videos.js).
VARIABLES listing

dirVars == <<dirState, ensure>>

uploadVars == <<upload>>

videosVars == <<listing>>

\* The HLS output directory handed to uploadDirectoryToB2.
VARIABLES tree

\* The video catalog file and the conversions that use it.
VARIABLES catalog, conv

publishVars == <<tree>>

catalogVars == <<catalog, conv>>

\* The variables of the parts added to the core model.
edgeVars == <<dirVars, uploadVars, videosVars, publishVars, catalogVars>>

\* The variables convertToHls does not touch.
outsideHls == <<b2Vars, routeVars, idVars, keyVars, searchVars,
    edgeVars>>

\* The variables the BackblazeB2 instance does not touch.
outsideB2 == <<hlsVars, routeVars, idVars, keyVars, searchVars,
    edgeVars>>

\* The variables the /b2/upload-hls handler does not touch itself.
outsideRoute == <<hlsVars, b2Vars, idVars, keyVars, searchVars,
    edgeVars>>

\* The variables multer's filename callbacks do not touch.
outsideIds == <<hlsVars, b2Vars, routeVars, keyVars, searchVars,
    edgeVars>>

\* The variables the computation of a remote key does not touch.
outsideKey == <<hlsVars, b2Vars, routeVars, idVars, searchVars,
    edgeVars>>

\* The variables searchFilesByName does not touch.
outsideSearch == <<hlsVars, b2Vars, routeVars, idVars, keyVars,
    edgeVars>>

\* The variables an ensureDirExists caller does not touch.
outsideDir == <<hlsVars, b2Vars, routeVars, idVars, keyVars, searchVars,
    uploadVars, videosVars,
    publishVars, catalogVars>>

\* The variables the /upload handler does not touch itself.
outsideUpload == <<b2Vars, routeVars, idVars, keyVars, searchVars, dirVars,
    videosVars,
    publishVars, catalogVars>>

\* The variables the /videos handler does not touch.
outsideVideos == <<hlsVars, b2Vars, routeVars, idVars, keyVars, searchVars,
    dirVars, uploadVars,
    publishVars, catalogVars>>

\* The variables the choice of the output tree does not touch.
outsidePublish == <<hlsVars, b2Vars, routeVars, idVars, keyVars, searchVars,
    dirVars, uploadVars, videosVars, catalogVars>>

\* The variables the catalog operations do not touch.
outsideCatalog == <<hlsVars, b2Vars, routeVars, idVars, keyVars, searchVars,
    dirVars, uploadVars, videosVars, publishVars>>

vars == <<hlsVars, b2Vars, routeVars, idVars, keyVars, searchVars, edgeVars>>

\* A bit_rate field of the ffprobe output: a number, JavaScript undefined
\* (field missing), or the string "N/A" ffprobe prints for an unknown rate.
Num(n) == [tag |-> "number", v |-> n]

Undefined == [tag |-> "undefined", v |-> 0]

NotAvailable == [tag |-> "N/A", v |-> 0]

\* Probed dimensions the model explores (width, height); 0 stands for a
\* missing dimension.
ProbeDims == { <<640, 360>>, <<854, 480>>, <<1000, 720>>, <<1280, 720>>,
               <<1300, 720>>, <<1920, 1080>>, <<0, 720>> }

\* bit_rate values of the video stream the model explores.
StreamBitRates == { Undefined, NotAvailable, Num(0), Num(400), Num(1000000),
                    Num(3000000) }

\* bit_rate values of the container (format) the model explores.
FormatBitRates == { Undefined, Num(2000000) }

\* What ffprobe can answer for an input file.
ProbeOutcomes ==
    { [kind |-> "error"], [kind |-> "novideo"] } \cup
    { [kind |-> "video", width |-> d[1], height |-> d[2],
       streamBitRate |-> s, formatBitRate |-> f] :
         d \in ProbeDims, s \in StreamBitRates, f \in FormatBitRates }

\* The configured table of standard renditions. A bitrate string "<n>k" is
\* kept as its number n of kbit/s; a size string "<w>x<h>" as <<w, h>>.
StandardResolutions ==
    << [name |-> "480p", size |-> <<854, 480>>, bitrate |-> 800,
        width |-> 854, height |-> 480, isOriginal |-> FALSE],
       [name |-> "720p", size |-> <<1280, 720>>, bitrate |-> 1500,
        width |-> 1280, height |-> 720, isOriginal |-> FALSE] >>

\* Bandwidth used when the bitrate string does not parse to a positive number.
DefaultBandwidth == 500000

\* Bitrate (kbit/s) used when the probe gives no usable bit rate.
DefaultBitrateK == 5000

\* parseInt(videoStream.bit_rate || metadata.format.bit_rate); -1 stands
\* for NaN. `||` takes the stream value unless it is falsy (undefined or 0).
NumericBitrate(p) ==
    LET chosen == IF p.streamBitRate = Undefined \/ p.streamBitRate = Num(0)
                  THEN p.formatBitRate ELSE p.streamBitRate
    IN IF chosen.tag = "number" THEN chosen.v ELSE -1

\* Math.round(n / 1000) for n >= 0.
RoundK(n) == (n + 500) \div 1000

\* originalBitrateStr, as a number of kbit/s.
OriginalBitrateStrDefault(p) == DefaultBitrateK

OriginalBitrateStr(p) ==
    LET n == NumericBitrate(p)
    IN IF n > 0 THEN RoundK(n) ELSE DefaultBitrateK

\* `${originalHeight}p`
ResName(h) == ToString(h) \o "p"

\* The filter predicate of the standard table (no upscaling).
FitsHeightOnly(res, w, h) == res.height <= h

FitsAny(res, w, h) == TRUE

Fits(res, w, h) == res.width <= w /\ res.height <= h

\* Insertion of r into a sequence sorted by sign * height, after the
\* elements that compare equal (Array.prototype.sort is stable).
RECURSIVE InsertByHeight(_, _, _)
InsertByHeight(r, s, sign) ==
    IF s = <<>> THEN <<r>>
    ELSE IF sign * (r.height - s[1].height) < 0 THEN <<r>> \o s
    ELSE <<s[1]>> \o InsertByHeight(r, Tail(s), sign)

RECURSIVE StableSortByHeight(_, _)
StableSortByHeight(s, sign) ==
    IF s = <<>> THEN <<>>
    ELSE InsertByHeight(s[Len(s)],
                        StableSortByHeight(SubSeq(s, 1, Len(s) - 1), sign), sign)

\* targetResolutions.sort((a, b) => a.height - b.height)
SortByHeightDescending(s) == StableSortByHeight(s, -1)

SortByHeight(s) == StableSortByHeight(s, 1)

\* targetResolutions.some(res => res.height === originalHeight)
AlreadyIncludedSameSize(filtered, w, h) ==
    \E i \in 1..Len(filtered) : filtered[i].size = <<w, h>>

AlreadyIncluded(filtered, w, h) ==
    \E i \in 1..Len(filtered) : filtered[i].height = h

\* The planned renditions for a probed source of w x h.
PlanResolutions(p) ==
    LET w == p.width
        h == p.height
        filtered == SelectSeq(StandardResolutions, LAMBDA res : Fits(res, w, h))
        alreadyIncluded == AlreadyIncluded(filtered, w, h)
        original == [name |-> ResName(h), size |-> <<w, h>>,
                     bitrate |-> OriginalBitrateStr(p),
                     width |-> w, height |-> h, isOriginal |-> TRUE]
        pushed == IF ~alreadyIncluded /\ w # 0 /\ h # 0
                  THEN Append(filtered, original) ELSE filtered
    IN SortByHeight(pushed)

\* parseInt(String(res.bitrate).replace('k', '')) * 1000, with the default.
BandwidthNoDefault(res) == res.bitrate * 1000

Bandwidth(res) ==
    LET b == res.bitrate * 1000
    IN IF b <= 0 THEN DefaultBandwidth ELSE b

\* The stream-info entries appended to masterPlaylistContent, in plan order.
MasterEntries(plan) ==
    [i \in 1..Len(plan) |->
        [bandwidth |-> Bandwidth(plan[i]), resolution |-> plan[i].size,
         url |-> plan[i].name]]

\* A job's promise is rejected with "Failed to create directory for <name>"
\* or with "FFmpeg failed for <name>".
Rejected(st) == st \in {"rejectedDir", "rejectedFfmpeg"}

\* A job has settled when its promise is resolved or rejected.
Settled(st) == st = "ok" \/ Rejected(st)

\* Promise.allSettled(processingPromises) resolves when every job has settled.
AwaitAnySettled(js) == \E j \in DOMAIN js : Settled(js[j])

AwaitFailFast(js) ==
    \/ \A j \in DOMAIN js : Settled(js[j])
    \/ \E j \in DOMAIN js : Rejected(js[j])

JointAwaitReady(js) == \A j \in DOMAIN js : Settled(js[j])

\* results.filter(result => result.status === 'rejected')
ErrorsFirstOnly(js) == { j \in DOMAIN js : j = 1 /\ Rejected(js[j]) }

Errors(js) == { j \in DOMAIN js : Rejected(js[j]) }

\* No input file has been handed to convertToHls yet.
NoSource == [probe |-> [kind |-> "none"], argsOk |-> FALSE]

HlsInit ==
    /\ hpc = "idle"
    /\ source = NoSource
    /\ targetResolutions = <<>>
    /\ job = <<>>
    /\ masterPlaylistContent = <<>>
    /\ manifestFile = "absent"
    /\ herror = [kind |-> "none", count |-> 0, names |-> {}]

\* convertToHls(inputPath, videoId, token): argument check, then the
\* executor runs up to the first await (ensureDirExists(outputDir)).
ConvertToHls ==
    /\ hpc = "idle"
    /\ \E p \in ProbeOutcomes, ok \in BOOLEAN :
          /\ source' = [probe |-> p, argsOk |-> ok]
          /\ IF ok
             THEN hpc' = "ensureDir" /\ UNCHANGED herror
             ELSE hpc' = "rejected" /\ herror' = [kind |-> "args", count |-> 0, names |-> {}]
    /\ UNCHANGED <<targetResolutions, job, masterPlaylistContent, manifestFile>>
    /\ UNCHANGED outsideHls

\* ensureDirExists(outputDir) succeeded: ffprobe is invoked.
OutputDirOk ==
    /\ hpc = "ensureDir"
    /\ hpc' = "probing"
    /\ UNCHANGED <<source, targetResolutions, job, masterPlaylistContent,
                   manifestFile, herror>>
    /\ UNCHANGED outsideHls

\* ensureDirExists(outputDir) threw.
OutputDirFail ==
    /\ hpc = "ensureDir"
    /\ hpc' = "rejected"
    /\ herror' = [kind |-> "dir", count |-> 0, names |-> {}]
    /\ UNCHANGED <<source, targetResolutions, job, masterPlaylistContent,
                   manifestFile>>
    /\ UNCHANGED outsideHls

\* The probe gave a video stream with a width and a height.
ProbeUsableAnyVideo(p) == p.kind = "video"

ProbeUsable(p) == p.kind = "video" /\ p.width # 0 /\ p.height # 0

ProbeFail ==
    /\ hpc = "probing"
    /\ ~ProbeUsable(source.probe)
    /\ hpc' = "rejected"
    /\ herror' = [kind |-> "probe", count |-> 0, names |-> {}]
    /\ UNCHANGED <<source, targetResolutions, job, masterPlaylistContent,
                   manifestFile>>
    /\ UNCHANGED outsideHls

\* The probe answered: plan, build the playlist text and launch every job
\* (forEach runs each executor up to its await ensureDirExists(resOutputDir)),
\* then await Promise.allSettled.
ProbeOkLaunch ==
    /\ hpc = "probing"
    /\ ProbeUsable(source.probe)
    /\ LET plan == PlanResolutions(source.probe)
       IN /\ targetResolutions' = plan
          /\ IF Len(plan) = 0
             THEN /\ hpc' = "rejected"
                  /\ herror' = [kind |-> "norenditions", count |-> 0, names |-> {}]
                  /\ UNCHANGED <<job, masterPlaylistContent>>
             ELSE /\ hpc' = "awaitJobs"
                  /\ job' = [i \in 1..Len(plan) |-> "mkdir"]
                  /\ masterPlaylistContent' = MasterEntries(plan)
                  /\ UNCHANGED herror
    /\ UNCHANGED <<source, manifestFile>>
    /\ UNCHANGED outsideHls

\* Job j: ensureDirExists(resOutputDir) succeeded, ffmpeg is run.
JobDirOk(j) ==
    /\ j \in DOMAIN job /\ job[j] = "mkdir"
    /\ job' = [job EXCEPT ![j] = "encoding"]
    /\ UNCHANGED <<hpc, source, targetResolutions, masterPlaylistContent,
                   manifestFile, herror>>
    /\ UNCHANGED outsideHls

\* Job j: ensureDirExists(resOutputDir) threw, resReject.
JobDirFail(j) ==
    /\ j \in DOMAIN job /\ job[j] = "mkdir"
    /\ job' = [job EXCEPT ![j] = "rejectedDir"]
    /\ UNCHANGED <<hpc, source, targetResolutions, masterPlaylistContent,
                   manifestFile, herror>>
    /\ UNCHANGED outsideHls

\* Job j: ffmpeg 'end' event, resResolve.
JobEnd(j) ==
    /\ j \in DOMAIN job /\ job[j] = "encoding"
    /\ job' = [job EXCEPT ![j] = "ok"]
    /\ UNCHANGED <<hpc, source, targetResolutions, masterPlaylistContent,
                   manifestFile, herror>>
    /\ UNCHANGED outsideHls

\* Job j: ffmpeg 'error' event, resReject.
JobError(j) ==
    /\ j \in DOMAIN job /\ job[j] = "encoding"
    /\ job' = [job EXCEPT ![j] = "rejectedFfmpeg"]
    /\ UNCHANGED <<hpc, source, targetResolutions, masterPlaylistContent,
                   manifestFile, herror>>
    /\ UNCHANGED outsideHls

\* throw new Error(`HLS conversion failed for ${errors.length}
\* resolution(s).`): the error carries the number of rejected jobs; names is
\* the set of rendition names its message holds (each job's own rejection
\* reason, which names the rendition, is only written to the console).
JobsError(js) ==
    [kind |-> "jobs", count |-> Cardinality(Errors(js)), names |-> {}]

\* The joint await returns: reject if any job failed, else start writing
\* master.m3u8.
JobsSettled ==
    /\ hpc = "awaitJobs"
    /\ JointAwaitReady(job)
    /\ IF Errors(job) # {}
       THEN /\ hpc' = "rejected"
            /\ herror' = JobsError(job)
       ELSE /\ hpc' = "writing"
            /\ UNCHANGED herror
    /\ UNCHANGED <<source, targetResolutions, job, masterPlaylistContent,
                   manifestFile>>
    /\ UNCHANGED outsideHls

\* fs.writeFile(masterPlaylistPath, ...) succeeded: resolve.
WriteMasterOk ==
    /\ hpc = "writing"
    /\ manifestFile' = "complete"
    /\ hpc' = "resolved"
    /\ UNCHANGED <<source, targetResolutions, job, masterPlaylistContent, herror>>
    /\ UNCHANGED outsideHls

\* fs.writeFile threw (the file may or may not have been created): reject.
WriteMasterFail ==
    /\ hpc = "writing"
    /\ manifestFile' \in {"absent", "partial"}
    /\ hpc' = "rejected"
    /\ herror' = [kind |-> "write", count |-> 0, names |-> {}]
    /\ UNCHANGED <<source, targetResolutions, job, masterPlaylistContent>>
    /\ UNCHANGED outsideHls

\* A plan holds at most every standard rendition plus the original one.
MaxJobs == Len(StandardResolutions) + 1

HlsNext ==
    \/ ConvertToHls
    \/ OutputDirOk
    \/ OutputDirFail
    \/ ProbeFail
    \/ ProbeOkLaunch
    \/ \E j \in 1..MaxJobs : JobDirOk(j)
    \/ \E j \in 1..MaxJobs : JobDirFail(j)
    \/ \E j \in 1..MaxJobs : JobEnd(j)
    \/ \E j \in 1..MaxJobs : JobError(j)
    \/ JobsSettled
    \/ WriteMasterOk
    \/ WriteMasterFail

\* ------------------------------------------------------------------------
\* Part 2: BackblazeB2 (session, uploadFile, listFiles, upload history,
\* uploadDirectoryToB2)
\* ------------------------------------------------------------------------

\* Strings that the code inspects character by character (paths, prefixes,
\* remote file names) are sequences of one-character strings.
PrefixV == <<"v">>

\* The b2Prefix arguments the model explores.
B2Prefixes == { PrefixV }

\* Relative paths as path.relative gives them: "a" and, with the Windows
\* separator, "d\b".
RelA == <<"a">>

RelDB == <<"d", "\\", "b">>

\* What _listFilesInDirRecursive can return for the local directory.
LocalListings == { <<>>, <<RelA>>, <<RelA, RelDB>> }

\* The fileName arguments of direct uploadFile calls the model explores.
DirectNames == { <<"v", "/", "a">> }

\* Total number of uploadFile / listFiles invocations (direct or as tasks of
\* a directory upload) the model explores.
MaxCalls == 2

\* Number of uploadDirectoryToB2 invocations the model explores.
MaxSyncs == 2

\* b2Prefix.endsWith('/')
EndsWithSlash(s) == Len(s) > 0 /\ s[Len(s)] = "/"

\* cleanPrefix = b2Prefix.endsWith('/') ? b2Prefix : `${b2Prefix}/`
CleanPrefix(prefix) == IF EndsWithSlash(prefix) THEN prefix ELSE prefix \o <<"/">>

\* relativePath.replace(/\\/g, '/')
ReplaceFirstBackslash(s) ==
    [i \in DOMAIN s |->
        IF s[i] = "\\" /\ (\A k \in 1..(i - 1) : s[k] # "\\") THEN "/" ELSE s[i]]

ReplaceBackslashes(s) == [i \in DOMAIN s |-> IF s[i] = "\\" THEN "/" ELSE s[i]]

\* b2FileName = `${cleanPrefix}${relativePath.replace(/\\/g, '/')}`
B2FileName(prefix, rel) == CleanPrefix(prefix) \o ReplaceBackslashes(rel)

\* The session fields of this.config: 0 stands for the empty string, n > 0
\* for the value carried by an authorization response of the server's n-th
\* token period (the tokens of one period expire together).
EmptyConfig == [apiUrl |-> 0, authorizationToken |-> 0, downloadUrl |-> 0]

\* A session of which only the token was stored.
SessionOfTokenOnly(n) == [apiUrl |-> 0, authorizationToken |-> n, downloadUrl |-> 0]

\* The session fields as authorize() sets them from one response.
SessionOf(n) == [apiUrl |-> n, authorizationToken |-> n, downloadUrl |-> n]

\* Number of token expirations the model explores.
MaxExpirations == 1

\* The server accepts the tokens it issued in its current token period.
TokenValid(t) == t = epoch + 1

\* _logUpload(key, logEntry) on the Map h.
LogUploadOverwrite(h, key, logEntry) ==
    [k \in DOMAIN h \cup {key} |-> IF k = key THEN <<logEntry>> ELSE h[k]]

LogUpload(h, key, logEntry) ==
    [k \in DOMAIN h \cup {key} |->
        IF k = key
        THEN (IF key \in DOMAIN h THEN Append(h[key], logEntry) ELSE <<logEntry>>)
        ELSE h[k]]

\* getUploadHistory(key): the array of the key, or undefined.
GetUploadHistory(h, key) ==
    IF key \in DOMAIN h THEN [defined |-> TRUE, entries |-> h[key]]
    ELSE [defined |-> FALSE, entries |-> <<>>]

\* The log entries written by uploadFile; id is the identity of the entry
\* object (the invocation that created it).
SuccessEntry(name, c) == [success |-> TRUE, file |-> name, id |-> c]

FailureEntry(name, c) == [success |-> FALSE, file |-> name, id |-> c]

\* logEntry = uploadHistory.get(b2FileName)?.pop(); if (logEntry) {
\* _logUpload(b2Prefix, logEntry); uploadHistory.delete(b2FileName) }
MigrateEntry(h, b2FileName, b2Prefix) ==
    IF b2FileName \notin DOMAIN h THEN h
    ELSE IF h[b2FileName] = <<>> THEN h
    ELSE LET arr == h[b2FileName]
             logEntry == arr[Len(arr)]
             popped == [h EXCEPT ![b2FileName] = SubSeq(arr, 1, Len(arr) - 1)]
             logged == LogUpload(popped, b2Prefix, logEntry)
         IN [k \in DOMAIN logged \ {b2FileName} |-> logged[k]]

\* The outcome object of a directory-upload task: if (!result) failure.
TaskOutcome(result) == IF result = "null" THEN "failure" ELSE "success"

\* A new invocation of uploadFile or listFiles: it runs up to its first
\* await, which is authorize() when no token is held and the API request
\* (b2_get_upload_url, b2_list_file_names) otherwise.
NewCallEager(op, name, local, sync, cfg) ==
    [op |-> op, fileName |-> name, local |-> local, sync |-> sync,
     pc |-> IF op = "uploadFile" THEN "getUrl" ELSE "listing",
     tok |-> cfg.authorizationToken, apiRequests |-> 1,
     result |-> "pending", failure |-> "none", outcome |-> "none"]

NewCall(op, name, local, sync, cfg) ==
    [op |-> op, fileName |-> name, local |-> local, sync |-> sync,
     pc |-> IF cfg.authorizationToken = 0 THEN "auth"
            ELSE IF op = "uploadFile" THEN "getUrl" ELSE "listing",
     tok |-> cfg.authorizationToken,  \* token of the request in flight
     apiRequests |-> IF cfg.authorizationToken = 0 THEN 0 ELSE 1,
     result |-> "pending", failure |-> "none", outcome |-> "none"]

\* The result object before uploadDirectoryToB2 has returned.
NoResult == [success |-> FALSE, successfulUploads |-> <<>>,
             failedUploads |-> <<>>,
             history |-> [defined |-> FALSE, entries |-> <<>>]]

B2Init ==
    /\ config = EmptyConfig
    /\ epoch = 0
    /\ uploadHistory = << >>
    /\ calls = << >>
    /\ syncs = << >>

\* uploadFile(bucketId, fileName, filePath) called directly.
UploadFileCall ==
    /\ Len(calls) < MaxCalls
    /\ \E name \in DirectNames :
          calls' = Append(calls, NewCall("uploadFile", name, <<>>, 0, config))
    /\ UNCHANGED <<config, epoch, uploadHistory, syncs>>
    /\ UNCHANGED outsideB2

\* listFiles(bucketId) called.
ListFilesCall ==
    /\ Len(calls) < MaxCalls
    /\ calls' = Append(calls, NewCall("listFiles", <<>>, <<>>, 0, config))
    /\ UNCHANGED <<config, epoch, uploadHistory, syncs>>
    /\ UNCHANGED outsideB2

\* authorize() of invocation c succeeded: the session fields are set from
\* the response and the invocation sends its API request with the new token.
AuthorizeOk(c) ==
    /\ c \in DOMAIN calls /\ calls[c].pc = "auth"
    /\ config' = SessionOf(epoch + 1)
    /\ calls' = [calls EXCEPT ![c].pc = IF calls[c].op = "uploadFile"
                                        THEN "getUrl" ELSE "listing",
                              ![c].tok = epoch + 1,
                              ![c].apiRequests = @ + 1]
    /\ UNCHANGED <<epoch, uploadHistory, syncs>>
    /\ UNCHANGED outsideB2

\* authorize() of invocation c failed: `if (!authSuccess) return null`,
\* nothing is logged.
AuthorizeFail(c) ==
    /\ c \in DOMAIN calls /\ calls[c].pc = "auth"
    /\ calls' = [calls EXCEPT ![c].pc = "returned", ![c].result = "null",
                              ![c].failure = "auth"]
    /\ UNCHANGED <<config, epoch, uploadHistory, syncs>>
    /\ UNCHANGED outsideB2

\* b2_get_upload_url answered: the file is read and hashed and the upload
\* request is sent; a read error goes to the catch block.
GetUploadUrlOk(c) ==
    /\ c \in DOMAIN calls /\ calls[c].pc = "getUrl"
    /\ TokenValid(calls[c].tok)
    /\ \E readOk \in BOOLEAN :
          IF readOk
          THEN /\ calls' = [calls EXCEPT ![c].pc = "uploading", ![c].tok = 0]
               /\ UNCHANGED uploadHistory
          ELSE /\ calls' = [calls EXCEPT ![c].pc = "returned",
                                         ![c].result = "null",
                                         ![c].failure = "other", ![c].tok = 0]
               /\ uploadHistory' = LogUpload(uploadHistory, calls[c].fileName,
                                             FailureEntry(calls[c].fileName, c))
    /\ UNCHANGED <<config, epoch, syncs>>
    /\ UNCHANGED outsideB2

\* Why a request sent with token t fails: the server rejects the token
\* (401), or anything else (network, server error).
RequestFailure(t) == IF TokenValid(t) THEN "other" ELSE "tokenRejected"

\* b2_get_upload_url failed (401 for an expired token, or a network error):
\* the catch block logs the failure and returns null.
GetUploadUrlFail(c) ==
    /\ c \in DOMAIN calls /\ calls[c].pc = "getUrl"
    /\ calls' = [calls EXCEPT ![c].pc = "returned", ![c].result = "null",
                              ![c].failure = RequestFailure(calls[c].tok),
                              ![c].tok = 0]
    /\ uploadHistory' = LogUpload(uploadHistory, calls[c].fileName,
                                  FailureEntry(calls[c].fileName, c))
    /\ UNCHANGED <<config, epoch, syncs>>
    /\ UNCHANGED outsideB2

\* The upload request succeeded: log the success, return the file info.
UploadOk(c) ==
    /\ c \in DOMAIN calls /\ calls[c].pc = "uploading"
    /\ calls' = [calls EXCEPT ![c].pc = "returned", ![c].result = "data",
                              ![c].tok = 0]
    /\ uploadHistory' = LogUpload(uploadHistory, calls[c].fileName,
                                  SuccessEntry(calls[c].fileName, c))
    /\ UNCHANGED <<config, epoch, syncs>>
    /\ UNCHANGED outsideB2

\* The upload request failed: log the failure, return null.
UploadFail(c) ==
    /\ c \in DOMAIN calls /\ calls[c].pc = "uploading"
    /\ calls' = [calls EXCEPT ![c].pc = "returned", ![c].result = "null",
                              ![c].failure = "other", ![c].tok = 0]
    /\ uploadHistory' = LogUpload(uploadHistory, calls[c].fileName,
                                  FailureEntry(calls[c].fileName, c))
    /\ UNCHANGED <<config, epoch, syncs>>
    /\ UNCHANGED outsideB2

\* b2_list_file_names answered: listFiles returns response.data.
ListFilesOk(c) ==
    /\ c \in DOMAIN calls /\ calls[c].pc = "listing"
    /\ TokenValid(calls[c].tok)
    /\ calls' = [calls EXCEPT ![c].pc = "returned", ![c].result = "data",
                              ![c].tok = 0]
    /\ UNCHANGED <<config, epoch, uploadHistory, syncs>>
    /\ UNCHANGED outsideB2

\* b2_list_file_names failed: listFiles logs the error and returns null.
ListFilesFail(c) ==
    /\ c \in DOMAIN calls /\ calls[c].pc = "listing"
    /\ calls' = [calls EXCEPT ![c].pc = "returned", ![c].result = "null",
                              ![c].failure = RequestFailure(calls[c].tok),
                              ![c].tok = 0]
    /\ UNCHANGED <<config, epoch, uploadHistory, syncs>>
    /\ UNCHANGED outsideB2

\* The server expires the tokens it has issued (the client learns nothing).
ExpireToken ==
    /\ epoch < MaxExpirations
    /\ config.authorizationToken = epoch + 1
    /\ epoch' = epoch + 1
    /\ UNCHANGED <<config, uploadHistory, calls, syncs>>
    /\ UNCHANGED outsideB2

\* uploadDirectoryToB2(bucketId, localDirPath, b2Prefix): the recursive
\* listing of the local directory (which touches no state of the instance)
\* returns, allLocalFiles.map starts one task per file, each running
\* uploadFile up to its first await; then await Promise.all.
UploadDirectoryOf(listings) ==
    /\ Len(syncs) < MaxSyncs
    /\ \E b2Prefix \in B2Prefixes, allLocalFiles \in listings :
          /\ Len(calls) + Len(allLocalFiles) <= MaxCalls
          /\ calls' = calls \o
                 [i \in 1..Len(allLocalFiles) |->
                     NewCall("uploadFile", B2FileName(b2Prefix, allLocalFiles[i]),
                             allLocalFiles[i], Len(syncs) + 1, config)]
          /\ syncs' = Append(syncs,
                 [b2Prefix |-> b2Prefix, pc |-> "uploading",
                  tasks |-> [i \in 1..Len(allLocalFiles) |-> Len(calls) + i],
                  result |-> NoResult])
    /\ UNCHANGED <<config, epoch, uploadHistory>>
    /\ UNCHANGED outsideB2

\* uploadDirectoryToB2 on a directory with any of the explored listings.
UploadDirectoryToB2 == UploadDirectoryOf(LocalListings)

\* The task of invocation c resumes after `await this.uploadFile(...)`:
\* a null result gives a failed outcome; otherwise the last entry logged
\* under the file name is moved under b2Prefix and the file's key deleted.
TaskResume(c) ==
    /\ c \in DOMAIN calls /\ calls[c].pc = "returned" /\ calls[c].sync # 0
    /\ calls' = [calls EXCEPT ![c].pc = "settled",
                              ![c].outcome = TaskOutcome(calls[c].result)]
    /\ uploadHistory' =
          IF calls[c].result = "null" THEN uploadHistory
          ELSE MigrateEntry(uploadHistory, calls[c].fileName,
                            syncs[calls[c].sync].b2Prefix)
    /\ UNCHANGED <<config, epoch, syncs>>
    /\ UNCHANGED outsideB2

\* uploadResults.filter(...).map(...): the tasks of one outcome, in order.
TasksWith(tasks, outcome) ==
    SelectSeq(tasks, LAMBDA c : calls[c].outcome = outcome)

\* success: failedUploads.length === 0
SyncSuccessIfAnyUploaded(successful, failed) == successful # <<>>

SyncSuccess(successful, failed) == failed = <<>>

\* await Promise.all(uploadPromises): the task promises never reject, so
\* Promise.all is fulfilled when every task has settled.
PromiseAllFirstSettled(tasks) ==
    \E i \in DOMAIN tasks : calls[tasks[i]].pc = "settled"

PromiseAllReady(tasks) ==
    \A i \in DOMAIN tasks : calls[tasks[i]].pc = "settled"

\* Promise.all(uploadPromises) resolved: build the returned summary.
UploadDirectoryReturn(s) ==
    /\ s \in DOMAIN syncs /\ syncs[s].pc = "uploading"
    /\ PromiseAllReady(syncs[s].tasks)
    /\ LET successful == TasksWith(syncs[s].tasks, "success")
           failed == TasksWith(syncs[s].tasks, "failure")
       IN syncs' = [syncs EXCEPT ![s].pc = "returned",
                      ![s].result =
                        [success |-> SyncSuccess(successful, failed),
                         successfulUploads |->
                            [i \in DOMAIN successful |->
                                [file |-> calls[successful[i]].fileName,
                                 info |-> successful[i]]],
                         failedUploads |->
                            [i \in DOMAIN failed |->
                                [file |-> calls[failed[i]].fileName,
                                 local |-> calls[failed[i]].local]],
                         history |-> GetUploadHistory(uploadHistory,
                                                      syncs[s].b2Prefix)]]
    /\ UNCHANGED <<config, epoch, uploadHistory, calls>>
    /\ UNCHANGED outsideB2

B2Next ==
    \/ UploadFileCall
    \/ ListFilesCall
    \/ \E c \in 1..MaxCalls : AuthorizeOk(c)
    \/ \E c \in 1..MaxCalls : AuthorizeFail(c)
    \/ \E c \in 1..MaxCalls : GetUploadUrlOk(c)
    \/ \E c \in 1..MaxCalls : GetUploadUrlFail(c)
    \/ \E c \in 1..MaxCalls : UploadOk(c)
    \/ \E c \in 1..MaxCalls : UploadFail(c)
    \/ \E c \in 1..MaxCalls : ListFilesOk(c)
    \/ \E c \in 1..MaxCalls : ListFilesFail(c)
    \/ ExpireToken
    \/ UploadDirectoryToB2
    \/ \E c \in 1..MaxCalls : TaskResume(c)
    \/ \E s \in 1..MaxSyncs : UploadDirectoryReturn(s)

\* ------------------------------------------------------------------------
\* Part 3: POST /b2/upload-hls (src/routes/b2get.js, lines 313-406; the
\* handler of src/routes/b2.js, lines 142-251, has the same try/catch and
\* cleanup structure)
\* ------------------------------------------------------------------------

\* The handler's state: where it stands, the temporary input file
\* (originalTempPath) and the local output directory (hlsLocalOutputDir) on
\* disk, whether the try block threw (failed), uploadDirResult.success,
\* which cleanup calls threw, and the response given.
RouteIdle ==
    [pc |-> "idle", tempFile |-> "absent", outputDir |-> "absent",
     failed |-> FALSE, syncSuccess |-> FALSE,
     unlinkFailed |-> FALSE, rmFailed |-> FALSE, response |-> "none"]

RouteInit == route = RouteIdle

\* `catch (cleanupError) { console.error(...) }`: the error is logged and
\* the handler goes on with the statement after the try (the response).
CleanupCatch(afterTry) == afterTry

\* The response of the handler: next(error) when the try block threw,
\* else 207 when uploadDirResult.success is false, else 200.
ResponseOnCleanupError(r) ==
    IF r.failed \/ r.unlinkFailed \/ r.rmFailed THEN "error"
    ELSE IF ~r.syncSuccess THEN "207" ELSE "200"

ResponseAllOrNothing(r) ==
    IF r.failed \/ ~r.syncSuccess THEN "error" ELSE "200"

Response(r) ==
    IF r.failed THEN "error"
    ELSE IF ~r.syncSuccess THEN "207" ELSE "200"

\* Where the handler goes on after `await convertToHls(...)` inside its try
\* block: the next statement (the directory sync) when the promise is
\* fulfilled, the catch block's cleanup when it is rejected.
AwaitConvertIgnoringError(outcome) == "sync"

AwaitConvert(outcome) == IF outcome = "resolved" THEN "sync" ELSE "unlink"

\* The request arrives and multer runs: an upload error or a missing file
\* is answered 400; otherwise the file is on disk under TEMP_UPLOAD_DIR and
\* convertToHls is called.
UploadHlsRequest ==
    /\ route.pc = "idle"
    /\ \E multer \in {"error", "nofile", "file"} :
          route' = IF multer = "file"
                   THEN [route EXCEPT !.pc = "converting", !.tempFile = "present"]
                   ELSE [route EXCEPT !.pc = "done", !.response = "400"]
    /\ UNCHANGED outsideRoute

\* await convertToHls(...) returned: the output directory holds the HLS
\* files and uploadDirectoryToB2 is called.
ConvertResolved ==
    /\ route.pc = "converting"
    /\ route' = [route EXCEPT !.pc = AwaitConvert("resolved"),
                              !.outputDir = "present"]
    /\ UNCHANGED outsideRoute

\* await convertToHls(...) threw (before or after the run created its output
\* directory): the catch block starts its cleanup.
ConvertRejected ==
    /\ route.pc = "converting"
    /\ \E dir \in {"absent", "present"} :
          route' = [route EXCEPT !.pc = AwaitConvert("rejected"),
                                 !.failed = TRUE,
                                 !.outputDir = dir]
    /\ UNCHANGED outsideRoute

\* b2.uploadDirectoryToB2(bucketId, hlsLocalOutputDir, finalB2Prefix) lists
\* the directory and launches its tasks.
RouteSync ==
    /\ route.pc = "sync"
    /\ syncs = << >>
    /\ UploadDirectoryToB2

\* await b2.uploadDirectoryToB2(...) returned uploadDirResult.
SyncReturned ==
    /\ route.pc = "sync"
    /\ 1 \in DOMAIN syncs /\ syncs[1].pc = "returned"
    /\ route' = [route EXCEPT !.pc = "unlink",
                              !.syncSuccess = syncs[1].result.success]
    /\ UNCHANGED outsideRoute

\* fsPromises.unlink(originalTempPath) succeeded.
UnlinkOk ==
    /\ route.pc = "unlink"
    /\ route.tempFile = "present"
    /\ route' = [route EXCEPT !.pc = "rm", !.tempFile = "absent"]
    /\ UNCHANGED outsideRoute

\* fsPromises.unlink(originalTempPath) threw: control leaves the cleanup
\* try block, so the rm of the output directory is not run.
UnlinkFail ==
    /\ route.pc = "unlink"
    /\ route' = [route EXCEPT !.pc = CleanupCatch("respond"),
                              !.unlinkFailed = TRUE]
    /\ UNCHANGED outsideRoute

\* fsPromises.rm(hlsLocalOutputDir, { recursive: true, force: true })
\* succeeded (in the catch block it is called when existsSync is true).
RmOk ==
    /\ route.pc = "rm"
    /\ ~route.failed \/ route.outputDir = "present"
    /\ route' = [route EXCEPT !.pc = "respond", !.outputDir = "absent"]
    /\ UNCHANGED outsideRoute

\* fsPromises.rm(...) threw.
RmFail ==
    /\ route.pc = "rm"
    /\ route.outputDir = "present"
    /\ route' = [route EXCEPT !.pc = CleanupCatch("respond"),
                              !.rmFailed = TRUE]
    /\ UNCHANGED outsideRoute

\* Catch block: fs.existsSync(hlsLocalOutputDir) is false, rm is not called.
RmSkip ==
    /\ route.pc = "rm"
    /\ route.failed /\ route.outputDir = "absent"
    /\ route' = [route EXCEPT !.pc = "respond"]
    /\ UNCHANGED outsideRoute

\* res.status(...).json(...) or next(error).
Respond ==
    /\ route.pc = "respond"
    /\ route' = [route EXCEPT !.pc = "done", !.response = Response(route)]
    /\ UNCHANGED outsideRoute

RouteNext ==
    \/ UploadHlsRequest
    \/ ConvertResolved
    \/ ConvertRejected
    \/ RouteSync
    \/ \E c \in 1..MaxCalls : AuthorizeOk(c)
    \/ \E c \in 1..MaxCalls : AuthorizeFail(c)
    \/ \E c \in 1..MaxCalls : GetUploadUrlOk(c)
    \/ \E c \in 1..MaxCalls : GetUploadUrlFail(c)
    \/ \E c \in 1..MaxCalls : UploadOk(c)
    \/ \E c \in 1..MaxCalls : UploadFail(c)
    \/ \E c \in 1..MaxCalls : TaskResume(c)
    \/ \E s \in 1..MaxSyncs : UploadDirectoryReturn(s)
    \/ SyncReturned
    \/ UnlinkOk
    \/ UnlinkFail
    \/ RmOk
    \/ RmFail
    \/ RmSkip
    \/ Respond

\* ------------------------------------------------------------------------
\* Part 4: video ids (multer filename callbacks of src/routes/upload.js and
\* src/routes/b2get.js, and the output directory of convertToHls)
\* ------------------------------------------------------------------------

\* Largest value of the millisecond clock the model explores.
MaxClock == 1

\* Number of accepted uploads the model explores.
MaxUploads == 2

\* Values of Math.round(Math.random() * 1E9) the model explores.
Randoms == {0, 1}

\* file.originalname values the model explores: "a.m", "a.v", "a b.m",
\* "a_b.m" (one-character strings in sequence).
OriginalNames ==
    { <<"a", ".", "m">>, <<"a", ".", "v">>,
      <<"a", " ", "b", ".", "m">>, <<"a", "_", "b", ".", "m">> }

\* The characters kept by replace(/[^a-zA-Z0-9.]/g, '_'), among those the
\* model's names use.
SafeChar(ch) == ch \in {"a", "b", "m", "v", "."}

\* file.originalname.replace(/[^a-zA-Z0-9.]/g, '_')
SafeName(name) ==
    [i \in DOMAIN name |-> IF SafeChar(name[i]) THEN name[i] ELSE "_"]

\* upload.js: Date.now() + '-' + safeFilename (the number is one element).
UploadFilename(t, name) == <<ToString(t), "-">> \o SafeName(name)

\* b2get.js: uniqueSuffix + '-' + safeOriginalName, with
\* uniqueSuffix = Date.now() + '-' + Math.round(Math.random() * 1E9).
TempFilename(t, rnd, name) ==
    <<ToString(t), "-", ToString(rnd), "-">> \o SafeName(name)

\* Index of the last "." of a file name, 0 if there is none.
LastDot(f) ==
    LET dots == { i \in DOMAIN f : f[i] = "." }
    IN IF dots = {} THEN 0 ELSE CHOOSE i \in dots : \A k \in dots : k <= i

\* path.extname(f): from the last "." on, empty when there is no "." or the
\* name starts with it.
Extname(f) == IF LastDot(f) <= 1 THEN <<>> ELSE SubSeq(f, LastDot(f), Len(f))

\* videoId = path.basename(videoPath, path.extname(videoPath))
VideoId(f) == SubSeq(f, 1, Len(f) - Len(Extname(f)))

\* outputDir = path.join(PROCESSED_DIR_UTILS, videoId)
OutputDir(videoId) == <<"processed_videos", "/">> \o videoId

\* An accepted upload: the stored file and the run started for it.
Accepted(via, name, f) ==
    [via |-> via, originalname |-> name, filename |-> f,
     videoId |-> VideoId(f), outputDir |-> OutputDir(VideoId(f))]

IdInit == now = 0 /\ accepted = << >>

\* A millisecond passes.
Tick ==
    /\ now < MaxClock
    /\ now' = now + 1
    /\ UNCHANGED accepted
    /\ UNCHANGED outsideIds

\* POST /upload: multer stores the file and convertToHls is started.
UploadAccepted ==
    /\ Len(accepted) < MaxUploads
    /\ \E name \in OriginalNames :
          accepted' = Append(accepted,
                             Accepted("upload", name, UploadFilename(now, name)))
    /\ UNCHANGED now
    /\ UNCHANGED outsideIds

\* POST /b2/upload-hls: multer stores the file and convertToHls is started.
UploadHlsAccepted ==
    /\ Len(accepted) < MaxUploads
    /\ \E name \in OriginalNames, rnd \in Randoms :
          accepted' = Append(accepted,
                             Accepted("upload-hls", name,
                                      TempFilename(now, rnd, name)))
    /\ UNCHANGED now
    /\ UNCHANGED outsideIds

IdNext == Tick \/ UploadAccepted \/ UploadHlsAccepted

\* ------------------------------------------------------------------------
\* Part 5: the remote key of an upload task (src/back.js, lines 244-248, and
\* src/routes/b2.js, lines 175-179)
\* ------------------------------------------------------------------------

\* Largest number of path segments of a relative path the model explores.
MaxDepth == 3

\* Names of directories and files (no separator inside).
SegmentNames == {"480p", "segment001.ts", "x"}

\* The relative paths below the local root, as lists of segments.
SegmentLists == UNION { [1..n -> SegmentNames] : n \in 1..MaxDepth }

\* path.sep: "/" on POSIX, "\\" on Windows.
Separators == {"/", "\\"}

\* b2Prefix arguments: a video id, one with a trailing slash, and
\* `${basePath}/${videoId}`.
KeyPrefixes == { <<"v123">>, <<"v123", "/">>, <<"b", "/", "v123">> }

\* The segments written with the separator sep between them.
RECURSIVE Join(_, _)
Join(segs, sep) ==
    IF Len(segs) = 0 THEN <<>>
    ELSE IF Len(segs) = 1 THEN <<segs[1]>>
    ELSE <<segs[1], sep>> \o Join(Tail(segs), sep)

\* b2.js: b2FileName = `${videoId}/${relativePath.replace(/\\/g, '/')}`
RouteB2FileName(videoId, rel) == videoId \o <<"/">> \o ReplaceBackslashes(rel)

NoKey == [via |-> "none", b2Prefix |-> <<>>, segments |-> <<>>, sep |-> "/",
          relativePath |-> <<>>, b2FileName |-> <<>>]

KeyInit == keyed = NoKey

\* A task of uploadDirectoryToB2 computes its b2FileName from
\* path.relative(localDirPath, localFilePath).
KeyOfTask ==
    /\ \E b2Prefix \in KeyPrefixes, segs \in SegmentLists, sep \in Separators :
          keyed' = [via |-> "uploadDirectoryToB2", b2Prefix |-> b2Prefix,
                    segments |-> segs, sep |-> sep,
                    relativePath |-> Join(segs, sep),
                    b2FileName |-> B2FileName(b2Prefix, Join(segs, sep))]
    /\ UNCHANGED outsideKey

\* A task of the b2.js handler computes its b2FileName under the video id.
KeyOfRouteTask ==
    /\ \E segs \in SegmentLists, sep \in Separators :
          keyed' = [via |-> "route", b2Prefix |-> <<"v123">>,
                    segments |-> segs, sep |-> sep,
                    relativePath |-> Join(segs, sep),
                    b2FileName |-> RouteB2FileName(<<"v123">>, Join(segs, sep))]
    /\ UNCHANGED outsideKey

\* The names a directory entry can have, as lists of characters: a POSIX
\* file name may hold a backslash, a Windows file name may not.
EntryNames(sep) ==
    IF sep = "/" THEN { <<"d">>, <<"b">>, <<"d", "\\", "b">> }
    ELSE { <<"d">>, <<"b">> }

\* The files below the local root: the entry names from the root down.
LocalFiles(sep) == UNION { [1..n -> EntryNames(sep)] : n \in 1..2 }

\* path.relative(localDirPath, localFilePath): the entry names written out
\* with path.sep between them.
RECURSIVE RelativePath(_, _)
RelativePath(file, sep) ==
    IF Len(file) = 0 THEN <<>>
    ELSE IF Len(file) = 1 THEN file[1]
    ELSE file[1] \o <<sep>> \o RelativePath(Tail(file), sep)

\* Two tasks of one uploadDirectoryToB2 call compute their b2FileName.
KeysOfSync ==
    /\ \E b2Prefix \in KeyPrefixes, sep \in Separators :
       \E file \in LocalFiles(sep), other \in LocalFiles(sep) :
          keyed' = [via |-> "sync", b2Prefix |-> b2Prefix,
                    segments |-> file, sep |-> sep,
                    relativePath |-> RelativePath(file, sep),
                    b2FileName |-> B2FileName(b2Prefix, RelativePath(file, sep)),
                    otherSegments |-> other,
                    otherB2FileName |-> B2FileName(b2Prefix, RelativePath(other, sep))]
    /\ UNCHANGED outsideKey

KeysNext == KeysOfSync

KeyNext == KeyOfTask \/ KeyOfRouteTask

\* ------------------------------------------------------------------------
\* Part 6: searchFilesByName (src/back.js, lines 433-451) over listFiles
\* (lines 333-358)
\* ------------------------------------------------------------------------

\* listFiles(bucketId, startFileName = null, maxFileCount = 100)
DefaultMaxFileCount == 100

\* Numbers of files in the bucket the model explores.
ContainerSizes ==
    {0, 1, 2, DefaultMaxFileCount, DefaultMaxFileCount + 1}

\* Names of the first file of the bucket ("Ab", "aBc", "c") and of its last
\* file ("xAB", "xab", "x") the model explores; the files between them are
\* named "m<i>". b2_list_file_names answers in the order of the names.
FirstNames == { <<"A", "b">>, <<"a", "B", "c">>, <<"c">> }

LastNames == { <<"x", "A", "B">>, <<"x", "a", "b">>, <<"x">> }

\* The fileName arguments of searchFilesByName the model explores.
SearchTerms == { <<"a", "b">>, <<"B">>, <<"A", "B">> }

\* The files of a bucket of n files.
Container(n, first, last) ==
    [i \in 1..n |->
        [fileName |-> IF i = 1 THEN first
                      ELSE IF i = n THEN last
                      ELSE <<"m", ToString(i)>>]]

\* String.prototype.toLowerCase, on the characters the model uses.
LowerChar(ch) == IF ch = "A" THEN "a" ELSE IF ch = "B" THEN "b" ELSE ch

ToLowerCase(str) == [i \in DOMAIN str |-> LowerChar(str[i])]

\* String.prototype.includes
Includes(str, sub) ==
    \E k \in 0..(Len(str) - Len(sub)) : SubSeq(str, k + 1, k + Len(sub)) = sub

\* response.data.files of b2_list_file_names without startFileName: the
\* first maxFileCount files of the bucket.
ListedFiles(container, maxFileCount) ==
    SubSeq(container, 1,
           IF Len(container) < maxFileCount THEN Len(container) ELSE maxFileCount)

\* file.fileName.toLowerCase().includes(searchTerm)
Matches(file, fileName) ==
    Includes(ToLowerCase(file.fileName), ToLowerCase(fileName))

NoSearch == [pc |-> "idle", container |-> <<>>, fileName |-> <<>>,
             listed |-> FALSE, matchingFiles |-> <<>>]

SearchInit == search = NoSearch

\* searchFilesByName(bucketId, fileName) calls this.listFiles(bucketId).
SearchFilesByName ==
    /\ search.pc = "idle"
    /\ \E n \in ContainerSizes, first \in FirstNames, last \in LastNames,
          fileName \in SearchTerms :
          search' = [NoSearch EXCEPT !.pc = "listing",
                                     !.container = Container(n, first, last),
                                     !.fileName = fileName]
    /\ UNCHANGED outsideSearch

\* listFiles answered: filter result.files and return the matches.
SearchListed ==
    /\ search.pc = "listing"
    /\ LET files == ListedFiles(search.container, DefaultMaxFileCount)
       IN search' = [search EXCEPT
                        !.pc = "returned", !.listed = TRUE,
                        !.matchingFiles =
                            SelectSeq(files,
                                      LAMBDA file : Matches(file, search.fileName))]
    /\ UNCHANGED outsideSearch

\* listFiles returned null: `if (!result || !result.files) return []`.
SearchListFailed ==
    /\ search.pc = "listing"
    /\ search' = [search EXCEPT !.pc = "returned", !.matchingFiles = <<>>]
    /\ UNCHANGED outsideSearch

SearchNext == SearchFilesByName \/ SearchListed \/ SearchListFailed

\* ------------------------------------------------------------------------
\* Part 7: the one-request operations of BackblazeB2 (listBuckets,
\* downloadFile, searchFilesByPrefix, listFolder), which share the shape of
\* listFiles: token check, authorize, one API request
\* ------------------------------------------------------------------------

OneRequestOps == {"listBuckets", "downloadFile", "searchFilesByPrefix", "listFolder"}

\* One of the one-request operations is called. Its request is answered by
\* ListFilesOk / ListFilesFail; the result "null" stands for the value the
\* operation returns on failure ([], false, null or { folders: [], files: [] }).
OneRequestCall ==
    /\ Len(calls) < MaxCalls
    /\ \E op \in OneRequestOps :
          calls' = Append(calls, NewCall(op, <<>>, <<>>, 0, config))
    /\ UNCHANGED <<config, epoch, uploadHistory, syncs>>
    /\ UNCHANGED outsideB2

SessionNext ==
    \/ UploadFileCall
    \/ ListFilesCall
    \/ OneRequestCall
    \/ \E c \in 1..MaxCalls : AuthorizeOk(c)
    \/ \E c \in 1..MaxCalls : AuthorizeFail(c)
    \/ \E c \in 1..MaxCalls : GetUploadUrlOk(c)
    \/ \E c \in 1..MaxCalls : GetUploadUrlFail(c)
    \/ \E c \in 1..MaxCalls : UploadOk(c)
    \/ \E c \in 1..MaxCalls : UploadFail(c)
    \/ \E c \in 1..MaxCalls : ListFilesOk(c)
    \/ \E c \in 1..MaxCalls : ListFilesFail(c)
    \/ ExpireToken

\* ------------------------------------------------------------------------
\* Part 8: ensureDirExists (src/utils/hls.js), called by several callers for
\* one path. Nothing else touches the path.
\* ------------------------------------------------------------------------

\* Number of ensureDirExists calls the model explores.
MaxCallers == 3

\* What the path can be when the first call is made: missing below a
\* writable parent, missing below a parent that cannot be written, a
\* directory, a regular file, or below a parent that cannot be searched.
PathStates == {"missing", "uncreatable", "dir", "file", "denied"}

\* await fs.stat(dirPath): fulfilled, rejected with code ENOENT, or rejected
\* with another code.
StatResultExistsIsError(fs) ==
    IF fs \in {"missing", "uncreatable"} THEN "ENOENT" ELSE "error"

StatResult(fs) ==
    CASE fs \in {"dir", "file"} -> "ok"
      [] fs \in {"missing", "uncreatable"} -> "ENOENT"
      [] OTHER -> "error"

\* await fs.mkdir(dirPath, { recursive: true }): with recursive set, mkdir
\* is fulfilled when the directory is already there.
MkdirResultExclusive(fs) == IF fs = "missing" THEN "ok" ELSE "error"

MkdirResult(fs) == IF fs \in {"missing", "dir"} THEN "ok" ELSE "error"

\* A caller that has not called yet.
NoEnsure == [pc |-> "idle", after |-> FALSE, created |-> FALSE]

DirInit ==
    /\ dirState = "none"
    /\ ensure = [k \in 1..MaxCallers |-> NoEnsure]

\* ensureDirExists(dirPath) is called: fs.stat is issued. The first call
\* fixes what the path is; `after` records that an earlier call had already
\* returned successfully.
EnsureDirExists(k) ==
    /\ ensure[k].pc = "idle"
    /\ k > 1 => ensure[k - 1].pc # "idle"
    /\ IF dirState = "none"
       THEN dirState' \in PathStates
       ELSE UNCHANGED dirState
    /\ ensure' = [ensure EXCEPT ![k] =
          [pc |-> "stat",
           after |-> \E j \in 1..MaxCallers : ensure[j].pc = "resolved",
           created |-> FALSE]]
    /\ UNCHANGED outsideDir

\* fs.stat settles: return, go on to mkdir (ENOENT), or rethrow.
Stat(k) ==
    /\ ensure[k].pc = "stat"
    /\ LET r == StatResult(dirState)
       IN ensure' = [ensure EXCEPT ![k].pc =
              CASE r = "ok" -> "resolved"
                [] r = "ENOENT" -> "mkdir"
                [] OTHER -> "rejected"]
    /\ UNCHANGED dirState
    /\ UNCHANGED outsideDir

\* fs.mkdir settles: "Directory created" is logged, or the error is
\* rethrown.
Mkdir(k) ==
    /\ ensure[k].pc = "mkdir"
    /\ IF MkdirResult(dirState) = "ok"
       THEN /\ dirState' = "dir"
            /\ ensure' = [ensure EXCEPT ![k].pc = "resolved",
                                        ![k].created = TRUE]
       ELSE /\ ensure' = [ensure EXCEPT ![k].pc = "rejected"]
            /\ UNCHANGED dirState
    /\ UNCHANGED outsideDir

DirNext ==
    \/ \E k \in 1..MaxCallers : EnsureDirExists(k)
    \/ \E k \in 1..MaxCallers : Stat(k)
    \/ \E k \in 1..MaxCallers : Mkdir(k)

\* ------------------------------------------------------------------------
\* Part 9: the POST /upload handler (src/routes/upload.js). Its conversion
\* is the convertToHls run of Part 1.
\* ------------------------------------------------------------------------

\* What multer hands to the handler's callback.
MulterOutcomes == {"multerError", "error", "nofile", "file"}

UploadIdle == [pc |-> "idle", response |-> 0]

UploadInit == upload = UploadIdle

\* The response of the request once the .then / .catch callback of the
\* conversion has run: both callbacks only log.
AfterConversionReports(response, outcome) ==
    IF outcome = "rejected" THEN 500 ELSE response

AfterConversion(response, outcome) == response

\* The callback of upload(req, res, ...) runs: 400, 500, or 202 for a
\* stored file.
UploadRequest ==
    /\ upload.pc = "idle"
    /\ \E m \in MulterOutcomes :
          upload' = CASE m = "multerError" -> [pc |-> "done", response |-> 400]
                      [] m = "error" -> [pc |-> "done", response |-> 500]
                      [] m = "nofile" -> [pc |-> "done", response |-> 400]
                      [] OTHER -> [pc |-> "responded", response |-> 202]
    /\ UNCHANGED hlsVars
    /\ UNCHANGED outsideUpload

\* The statement after res.status(202).json(...): convertToHls is called.
UploadConverts ==
    /\ upload.pc = "responded"
    /\ ConvertToHls

\* The conversion settled: its .then or .catch callback logs the outcome.
ConversionLogged ==
    /\ upload.pc = "responded"
    /\ hpc \in {"resolved", "rejected"}
    /\ upload' = [pc |-> "logged",
                  response |-> AfterConversion(upload.response, hpc)]
    /\ UNCHANGED hlsVars
    /\ UNCHANGED outsideUpload

UploadNext ==
    \/ UploadRequest
    \/ UploadConverts
    \/ OutputDirOk
    \/ OutputDirFail
    \/ ProbeFail
    \/ ProbeOkLaunch
    \/ \E j \in 1..MaxJobs : JobDirOk(j)
    \/ \E j \in 1..MaxJobs : JobDirFail(j)
    \/ \E j \in 1..MaxJobs : JobEnd(j)
    \/ \E j \in 1..MaxJobs : JobError(j)
    \/ JobsSettled
    \/ WriteMasterOk
    \/ WriteMasterFail
    \/ ConversionLogged

\* ------------------------------------------------------------------------
\* Part 10: the GET /videos handler (src/routes/videos.js), listing the
\* processed_videos directory the convertToHls run of Part 1 writes to.
\* ------------------------------------------------------------------------

\* The run's output directory processed_videos/<videoId> exists: it is made
\* by ensureDirExists(outputDir) before the probe and never removed.
OutputDirExists ==
    \/ hpc \in {"probing", "awaitJobs", "writing", "resolved"}
    \/ hpc = "rejected" /\ herror.kind \notin {"args", "dir"}

\* What the handler's ensureDirExists and readdir can do.
ReaddirOutcomes == {"ok", "ENOENT", "error"}

VideosIdle == [pc |-> "idle", status |-> 0, videos |-> <<>>]

VideosInit == listing = VideosIdle

\* GET /videos: one entry per directory of processed_videos; [] on ENOENT,
\* 500 on another error.
GetVideos ==
    /\ listing.pc = "idle"
    /\ \E r \in ReaddirOutcomes :
          listing' =
             CASE r = "ok" ->
                    [pc |-> "answered", status |-> 200,
                     videos |-> IF OutputDirExists
                                THEN << [id |-> "videoId",
                                         masterPlaylistUrl |->
                                            <<"/processed/", "videoId", "/master.m3u8">>] >>
                                ELSE <<>>]
               [] r = "ENOENT" -> [pc |-> "answered", status |-> 200, videos |-> <<>>]
               [] OTHER -> [pc |-> "answered", status |-> 500, videos |-> <<>>]
    /\ UNCHANGED outsideVideos

VideosNext == HlsNext \/ GetVideos

\* ------------------------------------------------------------------------
\* Part 11: getDownloadUrlWithToken (src/back.js), next to listFiles calls
\* that may open the session before it.
\* ------------------------------------------------------------------------

\* `!this.config.authorizationToken || !this.config.downloadUrl`
NeedsAuthorizeNever(cfg) == FALSE

NeedsAuthorize(cfg) == cfg.authorizationToken = 0 \/ cfg.downloadUrl = 0

\* getDownloadUrlWithToken(fileName) is called. With a session it builds the
\* URL at once; `tok` of a returned call is the Authorization parameter of
\* its URL. Without one it awaits authorize().
GetDownloadUrlWithToken ==
    /\ Len(calls) < MaxCalls
    /\ LET call == NewCall("getDownloadUrlWithToken", <<>>, <<>>, 0, config)
       IN calls' = Append(calls,
              IF NeedsAuthorize(config)
              THEN [call EXCEPT !.pc = "urlAuth", !.apiRequests = 0]
              ELSE [call EXCEPT !.pc = "returned", !.apiRequests = 0,
                                !.result = "url",
                                !.tok = config.authorizationToken])
    /\ UNCHANGED <<config, epoch, uploadHistory, syncs>>
    /\ UNCHANGED outsideB2

\* authorize() of invocation c succeeded: the URL is built from the session
\* fields it has just set.
UrlAuthorizeOk(c) ==
    /\ c \in DOMAIN calls /\ calls[c].pc = "urlAuth"
    /\ config' = SessionOf(epoch + 1)
    /\ calls' = [calls EXCEPT ![c].pc = "returned", ![c].result = "url",
                              ![c].tok = config'.authorizationToken]
    /\ UNCHANGED <<epoch, uploadHistory, syncs>>
    /\ UNCHANGED outsideB2

\* authorize() of invocation c failed: 'No se pudo autenticar con Backblaze
\* B2' is thrown, logged by the catch block and thrown again.
UrlAuthorizeFail(c) ==
    /\ c \in DOMAIN calls /\ calls[c].pc = "urlAuth"
    /\ calls' = [calls EXCEPT ![c].pc = "thrown", ![c].result = "thrown",
                              ![c].failure = "auth"]
    /\ UNCHANGED <<config, epoch, uploadHistory, syncs>>
    /\ UNCHANGED outsideB2

UrlNext ==
    \/ GetDownloadUrlWithToken
    \/ \E c \in 1..MaxCalls : UrlAuthorizeOk(c)
    \/ \E c \in 1..MaxCalls : UrlAuthorizeFail(c)
    \/ ListFilesCall
    \/ \E c \in 1..MaxCalls : AuthorizeOk(c)
    \/ \E c \in 1..MaxCalls : AuthorizeFail(c)
    \/ \E c \in 1..MaxCalls : ListFilesOk(c)
    \/ \E c \in 1..MaxCalls : ListFilesFail(c)
    \/ ExpireToken

\* ------------------------------------------------------------------------
\* Part 12: uploadDirectoryToB2 on the output directory of a conversion:
\* master.m3u8 at the root and 480p/playlist.m3u8 below it, either directory
\* possibly refusing readdir.
\* ------------------------------------------------------------------------

\* The relative paths of the regular files of the output directory.
MasterRel == <<"master.m3u8">>

RenditionRel == <<"480p", "/", "playlist.m3u8">>

\* The output directory: whether readdir of the root and of the rendition
\* subdirectory succeed.
Trees == [root : {"ok", "unreadable"}, sub : {"ok", "unreadable"}]

NoTree == [root |-> "none", sub |-> "none"]

\* The regular files under the root, at any depth.
RegularFiles == {RenditionRel, MasterRel}

\* _listFilesInDirRecursive(dirPath): a readdir error is logged and the
\* files found so far (none, for that directory) are returned.
ListFilesInDirRecursive(t) ==
    IF t.root = "unreadable" THEN <<>>
    ELSE (IF t.sub = "ok" THEN <<RenditionRel>> ELSE <<>>) \o <<MasterRel>>

PublishInit == tree = NoTree

\* The conversion has left its output directory.
OutputTree ==
    /\ tree = NoTree
    /\ tree' \in Trees
    /\ UNCHANGED outsidePublish

\* uploadDirectoryToB2(bucketId, outputDir, b2Prefix) on that directory.
PublishSync ==
    /\ tree # NoTree
    /\ syncs = << >>
    /\ UploadDirectoryOf({ListFilesInDirRecursive(tree)})

\* The objects of the remote store: the names whose upload request
\* succeeded.
RemoteStore ==
    { calls[c].fileName : c \in { d \in DOMAIN calls :
          calls[d].op = "uploadFile" /\ calls[d].result = "data" } }

PublishNext ==
    \/ OutputTree
    \/ PublishSync
    \/ \E c \in 1..MaxCalls : AuthorizeOk(c)
    \/ \E c \in 1..MaxCalls : AuthorizeFail(c)
    \/ \E c \in 1..MaxCalls : GetUploadUrlOk(c)
    \/ \E c \in 1..MaxCalls : GetUploadUrlFail(c)
    \/ \E c \in 1..MaxCalls : UploadOk(c)
    \/ \E c \in 1..MaxCalls : UploadFail(c)
    \/ \E c \in 1..MaxCalls : TaskResume(c)
    \/ \E s \in 1..MaxSyncs : UploadDirectoryReturn(s)
    \/ ExpireToken

\* ------------------------------------------------------------------------
\* Part 13: the second definition of convertToHls (src/utils/hls.js, lines
\* 337-488), which records each video in the catalog file of
\* src/utils/metadata.js and derives a folder index from the catalog size.
\* Several conversions, one per video, run concurrently. The catalog file
\* exists (it holds a possibly empty list).
\* ------------------------------------------------------------------------

\* Number of videos converted concurrently.
MaxVideos == 2

\* The two renditions every run of this definition encodes.
IndexedJobs == {"480p", "720p"}

NoConv == [pc |-> "idle", folderIndex |-> -1, data |-> <<>>,
           jobs |-> [r \in IndexedJobs |-> "none"]]

CatalogInit ==
    /\ catalog = <<>>
    /\ conv = [v \in 1..MaxVideos |-> NoConv]

\* data.videos.findIndex(v => v.videoId === videoId) >= 0
HasVideo(videos, videoId) == \E i \in DOMAIN videos : videos[i].videoId = videoId

\* addVideoMetadata on the list it has read: the entry of a known video is
\* replaced (keeping its index), a new one is pushed with index
\* data.videos.length.
WithVideo(videos, videoId, folderIndex) ==
    IF HasVideo(videos, videoId)
    THEN [i \in DOMAIN videos |->
             IF videos[i].videoId = videoId
             THEN [videoId |-> videoId, index |-> videos[i].index,
                   folderIndex |-> folderIndex]
             ELSE videos[i]]
    ELSE Append(videos, [videoId |-> videoId, index |-> Len(videos),
                         folderIndex |-> folderIndex])

\* convertToHls(inputPath, videoId, ...) is called: the executor runs up to
\* `await ensureDirExists(outputDir)`, which is outside any try block.
ConvertIndexed(v) ==
    /\ conv[v].pc = "idle"
    /\ v > 1 => conv[v - 1].pc # "idle"
    /\ conv' = [conv EXCEPT ![v].pc = "ensureDir"]
    /\ UNCHANGED catalog
    /\ UNCHANGED outsideCatalog

\* ensureDirExists(outputDir) settles. When it throws, the async executor's
\* own promise is rejected and neither resolve nor reject is ever called:
\* the returned promise stays pending.
OutputDirSettles(v) ==
    /\ conv[v].pc = "ensureDir"
    /\ \E ok \in BOOLEAN :
          conv' = [conv EXCEPT ![v].pc = IF ok THEN "probe" ELSE "abandoned"]
    /\ UNCHANGED catalog
    /\ UNCHANGED outsideCatalog

\* extractVideoMetadata settles; without usable dimensions the catch block
\* rejects. Otherwise getAllVideos is called.
ProbeSettles(v) ==
    /\ conv[v].pc = "probe"
    /\ \E ok \in BOOLEAN :
          conv' = [conv EXCEPT ![v].pc = IF ok THEN "getAll" ELSE "rejected"]
    /\ UNCHANGED catalog
    /\ UNCHANGED outsideCatalog

\* getAllVideos() has read the catalog file: folderIndex = allVideos.length,
\* and addVideoMetadata is called. A read error rejects.
GetAllVideos(v) ==
    /\ conv[v].pc = "getAll"
    /\ \E ok \in BOOLEAN :
          conv' = IF ok
                  THEN [conv EXCEPT ![v].pc = "addRead",
                                    ![v].folderIndex = Len(catalog)]
                  ELSE [conv EXCEPT ![v].pc = "rejected"]
    /\ UNCHANGED catalog
    /\ UNCHANGED outsideCatalog

\* addVideoMetadata: readVideosMetadata() has read the catalog file into
\* `data`; saveVideosMetadata(data) is issued next.
AddVideoRead(v) ==
    /\ conv[v].pc = "addRead"
    /\ \E ok \in BOOLEAN :
          conv' = IF ok
                  THEN [conv EXCEPT ![v].pc = "addSave", ![v].data = catalog]
                  ELSE [conv EXCEPT ![v].pc = "rejected"]
    /\ UNCHANGED catalog
    /\ UNCHANGED outsideCatalog

\* addVideoMetadata: fs.writeFile of `data` with this video's entry has
\* replaced the catalog file; ensureDirExists of the indexed directory is
\* called. A write error rejects.
AddVideoSave(v) ==
    /\ conv[v].pc = "addSave"
    /\ \E ok \in BOOLEAN :
          IF ok
          THEN /\ catalog' = WithVideo(conv[v].data, v, conv[v].folderIndex)
               /\ conv' = [conv EXCEPT ![v].pc = "indexedDir"]
          ELSE /\ conv' = [conv EXCEPT ![v].pc = "rejected"]
               /\ UNCHANGED catalog
    /\ UNCHANGED outsideCatalog

\* ensureDirExists of `${folderIndex}_${videoId}` settles, inside the try
\* block: a throw rejects. Otherwise every job is launched and runs up to
\* its `await ensureDirExists(resOutputDir)`.
IndexedDirSettles(v) ==
    /\ conv[v].pc = "indexedDir"
    /\ \E ok \in BOOLEAN :
          conv' = IF ok
                  THEN [conv EXCEPT ![v].pc = "awaitJobs",
                                    ![v].jobs = [r \in IndexedJobs |-> "mkdir"]]
                  ELSE [conv EXCEPT ![v].pc = "rejected"]
    /\ UNCHANGED catalog
    /\ UNCHANGED outsideCatalog

\* ensureDirExists(resOutputDir) of job r settles, outside any try block:
\* when it throws, the job's promise is never settled.
IndexedJobDirSettles(v, r) ==
    /\ conv[v].pc = "awaitJobs" /\ conv[v].jobs[r] = "mkdir"
    /\ \E ok \in BOOLEAN :
          conv' = [conv EXCEPT ![v].jobs[r] = IF ok THEN "running" ELSE "abandoned"]
    /\ UNCHANGED catalog
    /\ UNCHANGED outsideCatalog

\* ffmpeg of job r reports end or error.
IndexedJobSettles(v, r) ==
    /\ conv[v].pc = "awaitJobs" /\ conv[v].jobs[r] = "running"
    /\ \E ok \in BOOLEAN :
          conv' = [conv EXCEPT ![v].jobs[r] = IF ok THEN "ok" ELSE "rejected"]
    /\ UNCHANGED catalog
    /\ UNCHANGED outsideCatalog

\* Promise.allSettled(processingPromises) is fulfilled: throw when a job was
\* rejected, else write the master playlist.
IndexedJobsSettled(v) ==
    /\ conv[v].pc = "awaitJobs"
    /\ \A r \in IndexedJobs : conv[v].jobs[r] \in {"ok", "rejected"}
    /\ conv' = [conv EXCEPT ![v].pc =
                   IF \E r \in IndexedJobs : conv[v].jobs[r] = "rejected"
                   THEN "rejected" ELSE "writing"]
    /\ UNCHANGED catalog
    /\ UNCHANGED outsideCatalog

\* fs.writeFile(masterPlaylistPath, ...) settles.
IndexedMasterSettles(v) ==
    /\ conv[v].pc = "writing"
    /\ \E ok \in BOOLEAN :
          conv' = [conv EXCEPT ![v].pc = IF ok THEN "resolved" ELSE "rejected"]
    /\ UNCHANGED catalog
    /\ UNCHANGED outsideCatalog

CatalogNext ==
    \/ \E v \in 1..MaxVideos : ConvertIndexed(v)
    \/ \E v \in 1..MaxVideos : OutputDirSettles(v)
    \/ \E v \in 1..MaxVideos : ProbeSettles(v)
    \/ \E v \in 1..MaxVideos : GetAllVideos(v)
    \/ \E v \in 1..MaxVideos : AddVideoRead(v)
    \/ \E v \in 1..MaxVideos : AddVideoSave(v)
    \/ \E v \in 1..MaxVideos : IndexedDirSettles(v)
    \/ \E v \in 1..MaxVideos, r \in IndexedJobs : IndexedJobDirSettles(v, r)
    \/ \E v \in 1..MaxVideos, r \in IndexedJobs : IndexedJobSettles(v, r)
    \/ \E v \in 1..MaxVideos : IndexedJobsSettled(v)
    \/ \E v \in 1..MaxVideos : IndexedMasterSettles(v)

\* ------------------------------------------------------------------------
\* Specifications
\* ------------------------------------------------------------------------

Init ==
    /\ HlsInit /\ B2Init /\ RouteInit /\ IdInit /\ KeyInit /\ SearchInit
    /\ DirInit /\ UploadInit /\ VideosInit /\ PublishInit /\ CatalogInit

SpecB2 == Init /\ [][B2Next]_vars

SpecHls == Init /\ [][HlsNext]_vars

SpecRoute == Init /\ [][RouteNext]_vars

SpecIds == Init /\ [][IdNext]_vars

SpecKey == Init /\ [][KeyNext]_vars

SpecKeys == Init /\ [][KeysNext]_vars

SpecSearch == Init /\ [][SearchNext]_vars

SpecSession == Init /\ [][SessionNext]_vars

SpecUrl == Init /\ [][UrlNext]_vars

SpecDir == Init /\ [][DirNext]_vars

SpecUpload == Init /\ [][UploadNext]_vars

SpecVideos == Init /\ [][VideosNext]_vars

SpecPublish == Init /\ [][PublishNext]_vars

SpecCatalog == Init /\ [][CatalogNext]_vars

\* Every awaited operation of a conversion (directory creation, probe,
\* catalog read and write, encode job, playlist write) eventually answers.
SpecCatalogFair == SpecCatalog /\ WF_vars(CatalogNext)

\* ------------------------------------------------------------------------
\* Properties of convertToHls
\* ------------------------------------------------------------------------

RunEnded == hpc \in {"resolved", "rejected"}

\* The run has taken its decision on the jobs' results.
Decided ==
    \/ hpc \in {"writing", "resolved"}
    \/ hpc = "rejected" /\ herror.kind \in {"jobs", "write"}

SomeJobRejected == \E j \in DOMAIN job : Rejected(job[j])

\* C1: if at least one rendition job of a run fails, master.m3u8 is never
\* written for that run, and once the run has ended it has rejected (with the
\* jobs error) and no manifest exists in the output directory.
C1_NoManifestAfterFailedJob ==
    SomeJobRejected =>
        /\ manifestFile = "absent"
        /\ hpc \notin {"writing", "resolved"}
        /\ RunEnded => (hpc = "rejected" /\ herror.kind = "jobs")

\* A run that ended with a failed job next to a successful sibling.
C1_Witness ==
    /\ hpc = "rejected"
    /\ \E i, j \in DOMAIN job : Rejected(job[i]) /\ job[j] = "ok"

\* C2 (state part): every planned job is launched by the same step, the run
\* decides only when every job has settled, and a job that is encoding can
\* always report its end, whatever its siblings did.
C2_State ==
    /\ hpc \in {"awaitJobs", "writing", "resolved"} =>
           DOMAIN job = DOMAIN targetResolutions
    /\ Decided => \A j \in DOMAIN job : Settled(job[j])
    /\ \A j \in DOMAIN job : job[j] = "encoding" => ENABLED JobEnd(j)

\* C2 (step part): a step in which one job fails changes no sibling job, and
\* a settled job never changes again.
C2_Step ==
    \A i \in DOMAIN job :
        /\ (~Rejected(job[i]) /\ i \in DOMAIN job' /\ Rejected(job'[i])) =>
               \A j \in DOMAIN job \ {i} : j \in DOMAIN job' /\ job'[j] = job[j]
        /\ Settled(job[i]) => (i \in DOMAIN job' /\ job'[i] = job[i])

\* C2: rendition jobs are launched together and are fail-independent; the
\* decision of the run is taken only once every job has settled, in any
\* completion order.
C2_FailIndependent == [](C2_State) /\ [][C2_Step]_vars

\* The run decided with the jobs error after a job failed and a sibling
\* job still ran to its successful end.
C2_Witness ==
    /\ hpc = "rejected" /\ herror.kind = "jobs"
    /\ Len(job) >= 2
    /\ job[1] = "ok" /\ Rejected(job[Len(job)])

\* C3: the master manifest is written strictly after the last job completed:
\* no state has the write in progress, or the file present, while a job of
\* the run is still running.
C3_ManifestAfterLastJob ==
    (hpc = "writing" \/ manifestFile # "absent") =>
        \A j \in DOMAIN job : Settled(job[j])

\* The manifest of a run with several jobs has been written.
C3_Witness == manifestFile = "complete" /\ Len(job) >= 2

\* The source-copy renditions of the plan.
SourceCopies == { i \in DOMAIN targetResolutions : targetResolutions[i].isOriginal }

\* C8 (as claimed): every planned set has exactly one source-copy rendition,
\* and its target size is the source size.
C8_ExactlyOneSourceCopy ==
    targetResolutions # <<>> =>
        /\ Cardinality(SourceCopies) = 1
        /\ \A i \in SourceCopies :
               targetResolutions[i].size = <<source.probe.width, source.probe.height>>

\* C9: no upscaling: every planned rendition is at most as wide and at most
\* as high as the probed source.
C9_NoUpscaling ==
    \A i \in DOMAIN targetResolutions :
        /\ targetResolutions[i].width <= source.probe.width
        /\ targetResolutions[i].height <= source.probe.height

\* A source narrower than a standard rendition of its own height: the
\* standard 720p (1280 wide) is dropped for the 1000x720 source.
C9_Witness ==
    /\ hpc = "awaitJobs"
    /\ source.probe.width = 1000
    /\ Len(targetResolutions) = 2

BandwidthAscending(entries) ==
    \A i, j \in DOMAIN entries : i < j => entries[i].bandwidth <= entries[j].bandwidth

HeightAscending(entries) ==
    \A i, j \in DOMAIN entries :
        i < j => entries[i].resolution[2] <= entries[j].resolution[2]

PlanMade ==
    \/ hpc \in {"awaitJobs", "writing", "resolved"}
    \/ hpc = "rejected" /\ herror.kind \in {"norenditions", "jobs", "write"}

\* The probed source is smaller than every configured rendition.
SmallerThanEveryStandard(p) ==
    \A i \in DOMAIN StandardResolutions :
        /\ p.width < StandardResolutions[i].width
        /\ p.height < StandardResolutions[i].height

\* The probed source is larger than every configured rendition.
LargerThanEveryStandard(p) ==
    \A i \in DOMAIN StandardResolutions :
        /\ p.width > StandardResolutions[i].width
        /\ p.height > StandardResolutions[i].height

\* C11: for a source smaller than every configured rendition the plan is
\* exactly one rendition, named after the source height ("360p" for
\* 640x360), of the source size and flagged as source copy; the run does not
\* fail for lack of renditions.
C11_SmallSourceOnlySourceCopy ==
    (PlanMade /\ SmallerThanEveryStandard(source.probe)) =>
        /\ herror.kind # "norenditions"
        /\ Len(targetResolutions) = 1
        /\ targetResolutions[1].isOriginal
        /\ targetResolutions[1].name = ResName(source.probe.height)
        /\ targetResolutions[1].size = <<source.probe.width, source.probe.height>>
        /\ source.probe.height = 360 => targetResolutions[1].name = "360p"

\* The single job of a 640x360 source has been launched.
C11_Witness ==
    /\ hpc = "awaitJobs"
    /\ source.probe.width = 640 /\ source.probe.height = 360
    /\ Len(job) = 1

FailedNames == { targetResolutions[j].name : j \in Errors(job) }

\* C18 (as claimed): when rendition jobs fail, the single error convertToHls
\* rejects with carries the number of failed renditions and the name of
\* each of them.
C18_ErrorCarriesCountAndNames ==
    (hpc = "rejected" /\ herror.kind = "jobs") =>
        /\ herror.count = Cardinality(Errors(job))
        /\ herror.names = FailedNames

\* ------------------------------------------------------------------------
\* Properties of BackblazeB2
\* ------------------------------------------------------------------------

Returned(s) == s \in DOMAIN syncs /\ syncs[s].pc = "returned"

TasksOf(s) == { syncs[s].tasks[i] : i \in DOMAIN syncs[s].tasks }

\* The positions of a history at which the entry of invocation c sits.
EntriesOf(hist, c) == { i \in DOMAIN hist : hist[i].id = c }

\* C4 (as claimed): the history returned by uploadDirectoryToB2 (the one
\* recorded under the prefix) holds exactly one entry per task, for failed
\* tasks as well as for successful ones.
C4_HistoryHasEveryTask ==
    \A s \in DOMAIN syncs :
        Returned(s) =>
            \A c \in TasksOf(s) :
                Cardinality(EntriesOf(syncs[s].result.history.entries, c)) = 1

\* The positions of the two result lists that name the task of invocation c.
InSuccessful(r, c) ==
    { k \in DOMAIN r.successfulUploads : r.successfulUploads[k].info = c }

InFailed(r, c) ==
    { k \in DOMAIN r.failedUploads :
        /\ r.failedUploads[k].local = calls[c].local
        /\ r.failedUploads[k].file = calls[c].fileName }

\* C5: for a directory upload over N files the two result lists have N
\* entries together, every file is in exactly one of them (the successful
\* list iff its upload returned the file info), and success is true iff
\* failedUploads is empty.
C5_OutcomesPartition ==
    \A s \in DOMAIN syncs :
        Returned(s) =>
            LET r == syncs[s].result
            IN /\ Len(r.successfulUploads) + Len(r.failedUploads) = Len(syncs[s].tasks)
               /\ \A c \in TasksOf(s) :
                     /\ Cardinality(InSuccessful(r, c)) + Cardinality(InFailed(r, c)) = 1
                     /\ Cardinality(InSuccessful(r, c)) = 1 <=> calls[c].result = "data"
               /\ r.success <=> r.failedUploads = <<>>

\* A directory upload of two files returned with one success and one failure.
C5_Witness ==
    \E s \in DOMAIN syncs :
        /\ Returned(s)
        /\ Len(syncs[s].result.successfulUploads) = 1
        /\ Len(syncs[s].result.failedUploads) = 1

IsPrefixOf(a, b) == Len(a) <= Len(b) /\ SubSeq(b, 1, Len(a)) = a

\* The key k keeps its entries, at their positions, over the step.
KeptOverStep(k) ==
    /\ k \in DOMAIN uploadHistory'
    /\ IsPrefixOf(uploadHistory[k], uploadHistory'[k])

MigratedOverStep(k) ==
    \E c \in DOMAIN calls :
        /\ calls[c].sync # 0 /\ calls[c].fileName = k
        /\ calls[c].pc = "returned" /\ calls[c].result = "data"
        /\ calls'[c].pc = "settled"
        /\ k \notin DOMAIN uploadHistory'
        /\ LET b2Prefix == syncs[calls[c].sync].b2Prefix
               last == uploadHistory[k][Len(uploadHistory[k])]
           IN /\ b2Prefix \in DOMAIN uploadHistory'
              /\ uploadHistory'[b2Prefix][Len(uploadHistory'[b2Prefix])] = last

C7_ReauthAndRetryOnce ==
    \A c \in DOMAIN calls :
        (calls[c].result = "null" /\ calls[c].failure = "tokenRejected") =>
            calls[c].apiRequests = 2

\* ------------------------------------------------------------------------
\* Properties of the /b2/upload-hls handler
\* ------------------------------------------------------------------------

\* The handler of an accepted file has given its response.
Handled == route.pc = "done" /\ route.response # "400"

\* An unfinished task can always take the successful step of its upload.
CanGoOn(c) ==
    /\ calls[c].pc = "auth" => ENABLED AuthorizeOk(c)
    /\ calls[c].pc = "getUrl" => ENABLED GetUploadUrlOk(c)
    /\ calls[c].pc = "uploading" => ENABLED UploadOk(c)
    /\ calls[c].pc = "returned" => ENABLED TaskResume(c)

C13_State ==
    /\ \A s \in DOMAIN syncs :
          /\ \A c \in TasksOf(s) : CanGoOn(c)
          /\ (syncs[s].pc = "uploading"
                /\ \A c \in TasksOf(s) : calls[c].pc = "settled")
             => ENABLED UploadDirectoryReturn(s)
          /\ Returned(s) =>
                /\ \A c \in TasksOf(s) : calls[c].pc = "settled"
                /\ \A c \in TasksOf(s) :
                      calls[c].result = "null" =>
                          Cardinality(InFailed(syncs[s].result, c)) = 1
                /\ Len(syncs[s].result.failedUploads) =
                      Cardinality({ c \in TasksOf(s) : calls[c].result = "null" })
    /\ syncs # << >> => ~route.failed
    /\ (Handled /\ syncs # << >> /\ syncs[1].result.failedUploads # << >>)
           => route.response = "207"

\* A step in which an upload fails changes no sibling task.
C13_Step ==
    \A c \in DOMAIN calls :
        (calls[c].result = "pending" /\ calls'[c].result = "null") =>
            \A d \in DOMAIN calls \ {c} : calls'[d] = calls[d]

\* C13: uploadDirectoryToB2 never rejects because a file upload failed: a
\* failed upload becomes a failed outcome, every other task of the sync can
\* still run to its end and is awaited, the failures are in the returned
\* result, and the handler answers 207 (partial success), not an error.
C13_SyncNeverThrows == [](C13_State) /\ [][C13_Step]_vars

\* The handler answered 207 for a sync of two files of which one failed.
C13_Witness ==
    /\ Handled /\ route.response = "207"
    /\ syncs # << >>
    /\ Len(syncs[1].result.successfulUploads) = 1
    /\ Len(syncs[1].result.failedUploads) = 1

\* C14 (as claimed): once the handling of an accepted file has finished,
\* each of the two local artifacts is gone unless its own removal failed:
\* a failed removal of one does not keep the other from being removed.
C14_CleanupUnconditional ==
    Handled =>
        /\ route.tempFile = "absent" \/ route.unlinkFailed
        /\ route.outputDir = "absent" \/ route.rmFailed

\* C15: a failure of the local cleanup never changes the response: it is
\* the error when the conversion failed, 207 when the sync had failures and
\* 200 otherwise, and it is still given after a cleanup call threw.
C15_CleanupNeverChangesResponse ==
    /\ (route.unlinkFailed \/ route.rmFailed) => route.pc \in {"respond", "done"}
    /\ Handled =>
          route.response =
              IF syncs = << >> THEN "error"
              ELSE IF syncs[1].result.failedUploads # << >> THEN "207"
              ELSE "200"

\* The handler answered 200 although removing the temporary file failed.
C15_Witness ==
    /\ Handled /\ route.response = "200"
    /\ route.unlinkFailed
    /\ syncs # << >> /\ Len(syncs[1].result.successfulUploads) = 2

\* ------------------------------------------------------------------------
\* Properties of the session
\* ------------------------------------------------------------------------

C16_State ==
    \A c \in DOMAIN calls :
        /\ calls[c].pc = "auth" => calls[c].apiRequests = 0
        /\ calls[c].failure = "auth" =>
               /\ calls[c].apiRequests = 0
               /\ calls[c].pc = "returned" /\ calls[c].result = "null"

C16_Step ==
    \A c \in DOMAIN calls' :
        /\ (c \notin DOMAIN calls /\ config.authorizationToken = 0) =>
               calls'[c].pc = "auth" /\ calls'[c].apiRequests = 0
        /\ (c \in DOMAIN calls /\ calls[c].pc = "auth"
              /\ calls'[c].apiRequests > 0) =>
               /\ config' = SessionOf(epoch + 1)
               /\ calls'[c].tok = config'.authorizationToken

\* C16: an operation invoked while no token is held authorizes before it
\* sends an API request (the request carries the token of that
\* authorization), and sends none at all when the authorization fails.
C16_LazySession == [](C16_State) /\ [][C16_Step]_vars

\* One operation gave up after a failed authorization without a request,
\* and a one-request operation invoked without a token got its data.
C16_Witness ==
    \E c, d \in DOMAIN calls :
        /\ calls[c].failure = "auth" /\ calls[c].apiRequests = 0
        /\ calls[d].op \in OneRequestOps
        /\ calls[d].result = "data" /\ calls[d].apiRequests = 1

\* ------------------------------------------------------------------------
\* Properties of video ids, remote keys and the search
\* ------------------------------------------------------------------------

\* C17 (as claimed): any two accepted uploads have different video ids and
\* different output directories.
C17_DistinctVideoIds ==
    \A i, j \in DOMAIN accepted :
        i # j =>
            /\ accepted[i].videoId # accepted[j].videoId
            /\ accepted[i].outputDir # accepted[j].outputDir

\* b2Prefix without its trailing slash, if it has one.
WithoutTrailingSlash(prefix) ==
    IF EndsWithSlash(prefix) THEN SubSeq(prefix, 1, Len(prefix) - 1) ELSE prefix

\* C19: the remote key of a task is the prefix, one forward slash, and the
\* segments of the relative path with a forward slash between them,
\* whichever the local separator and whether or not the prefix ends with
\* a slash.
C19_RemoteKey ==
    keyed.via # "none" =>
        keyed.b2FileName =
            WithoutTrailingSlash(keyed.b2Prefix) \o <<"/">>
                \o Join(keyed.segments, "/")

\* The key of 480p\segment001.ts under the prefix "v123/".
C19_Witness ==
    /\ keyed.via = "uploadDirectoryToB2"
    /\ keyed.b2Prefix = <<"v123", "/">>
    /\ keyed.relativePath = <<"480p", "\\", "segment001.ts">>
    /\ keyed.b2FileName = <<"v123", "/", "480p", "/", "segment001.ts">>

\* C20 (as claimed): a search whose listing succeeded returns exactly the
\* files of the bucket whose name contains the term, compared
\* case-insensitively, whatever the number of files in the bucket.
C20_ReturnsEveryMatch ==
    (search.pc = "returned" /\ search.listed) =>
        search.matchingFiles =
            SelectSeq(search.container,
                      LAMBDA file : Matches(file, search.fileName))

\* ------------------------------------------------------------------------
\* Properties of the probe step of convertToHls
\* ------------------------------------------------------------------------

\* The probe of the run's input fails: ffprobe reports an error, the file
\* has no video stream, or a dimension of the stream is missing.
ProbeFailsFor(p) ==
    \/ p.kind \in {"error", "novideo"}
    \/ p.kind = "video" /\ (p.width = 0 \/ p.height = 0)

\* The run went past the probe (it was started with valid arguments and its
\* output directory was made).
PastProbe ==
    \/ hpc \in {"awaitJobs", "writing", "resolved"}
    \/ hpc = "rejected" /\ herror.kind \notin {"args", "dir"}

\* C21: a run whose probe fails is rejected with the probe error
\* ("Failed to get video metadata: ..."), and in that run no encode job is
\* launched, no rendition is planned and no manifest is written.
C21_ProbeFailureLaunchesNothing ==
    /\ (PastProbe /\ ProbeFailsFor(source.probe)) =>
           hpc = "rejected" /\ herror.kind = "probe"
    /\ (hpc # "idle" /\ ProbeFailsFor(source.probe)) =>
           /\ job = <<>>
           /\ targetResolutions = <<>>
           /\ masterPlaylistContent = <<>>
           /\ manifestFile = "absent"

\* A run was rejected by the probe of a video stream without a width.
C21_Witness ==
    /\ hpc = "rejected" /\ herror.kind = "probe"
    /\ source.probe.kind = "video" /\ source.probe.width = 0

\* A bit_rate field holds a positive number.
UsableBitRate(b) == b.tag = "number" /\ b.v > 0

\* The source bitrate (kbit/s) of the fallback chain stream, container,
\* default.
FallbackBitrate(p) ==
    IF UsableBitRate(p.streamBitRate) THEN RoundK(p.streamBitRate.v)
    ELSE IF UsableBitRate(p.formatBitRate) THEN RoundK(p.formatBitRate.v)
    ELSE DefaultBitrateK

\* C22 (as claimed): the bitrate of the source-copy rendition is the stream
\* bitrate when usable, else the container bitrate when usable, else the
\* default 5000k; and a probe with dimensions is never failed for its
\* bitrate.
C22_BitrateFallbackChain ==
    /\ (PastProbe /\ ~ProbeFailsFor(source.probe)) => herror.kind # "probe"
    /\ PlanMade =>
           \A i \in DOMAIN targetResolutions :
               targetResolutions[i].isOriginal =>
                   targetResolutions[i].bitrate = FallbackBitrate(source.probe)

\* C23: every bandwidth of the playlist text is a strictly positive integer:
\* the rendition's bitrate in bits per second, or 500000 when that is not
\* positive.
C23_BandwidthPositive ==
    /\ Len(masterPlaylistContent) = Len(targetResolutions) \/ masterPlaylistContent = <<>>
    /\ \A i \in DOMAIN masterPlaylistContent :
           LET b == masterPlaylistContent[i].bandwidth
               bps == targetResolutions[i].bitrate * 1000
           IN /\ b \in Nat /\ b > 0
              /\ bps > 0 => b = bps
              /\ bps <= 0 => b = 500000

\* The manifest of a source probed at 400 bit/s ("0k") was written with the
\* floor bandwidth for the source copy.
C23_Witness ==
    /\ manifestFile = "complete"
    /\ \E i \in DOMAIN masterPlaylistContent :
           /\ targetResolutions[i].isOriginal
           /\ targetResolutions[i].bitrate = 0
           /\ masterPlaylistContent[i].bandwidth = 500000

\* ------------------------------------------------------------------------
\* Properties of ensureDirExists
\* ------------------------------------------------------------------------

C24_State ==
    \A k \in 1..MaxCallers :
        ensure[k].after =>
            /\ ensure[k].pc \in {"stat", "resolved"}
            /\ ~ensure[k].created

C24_Step ==
    \A k \in 1..MaxCallers :
        (ensure[k].after /\ ensure'[k] # ensure[k]) => dirState' = dirState

\* C24: a call made after a call on the same path returned successfully
\* never fails, never reaches mkdir, and none of its steps changes the path.
C24_Idempotent == []C24_State /\ [][C24_Step]_vars

\* The first call created the directory and a call made after its return
\* has returned too.
C24_Witness ==
    /\ dirState = "dir"
    /\ ensure[1].pc = "resolved" /\ ensure[1].created
    /\ ensure[2].pc = "resolved" /\ ensure[2].after

\* C25: whatever the interleaving of the callers' stat and mkdir steps, no
\* call on a path that was missing (and could be created) or already there
\* is rejected: the callers that find the directory made by another caller
\* at their mkdir return normally.
C25_RaceNeverFails ==
    dirState \in {"missing", "dir", "file"} =>
        \A k \in 1..MaxCallers : ensure[k].pc # "rejected"

\* Two callers saw the path missing, and both returned from their mkdir.
C25_Witness ==
    /\ ensure[1].pc = "resolved" /\ ensure[1].created
    /\ ensure[2].pc = "resolved" /\ ensure[2].created

\* ------------------------------------------------------------------------
\* Properties of POST /upload and GET /videos
\* ------------------------------------------------------------------------

C27_State ==
    /\ hpc # "idle" => upload.response = 202
    /\ upload.pc = "logged" => upload.response = 202

C27_Step == upload.response # 0 => upload'.response = upload.response

\* C27: the conversion starts only once 202 has been answered, and the
\* response, once given, never changes, whatever the conversion's outcome.
C27_AcceptedBeforeConversion == []C27_State /\ [][C27_Step]_vars

\* The conversion failed and was logged; the response is still 202.
C27_Witness ==
    /\ upload.pc = "logged"
    /\ hpc = "rejected" /\ herror.kind = "jobs"
    /\ upload.response = 202

\* C28 (as claimed): when GET /videos answers, every video it lists has a
\* conversion that resolved and a written master playlist.
C28_ListedVideosProcessed ==
    [][listing' # listing =>
          \A i \in DOMAIN listing'.videos :
              hpc = "resolved" /\ manifestFile = "complete"]_vars

\* ------------------------------------------------------------------------
\* Properties of getDownloadUrlWithToken
\* ------------------------------------------------------------------------

IsUrlCall(call) == call.op = "getDownloadUrlWithToken"

C26_State ==
    \A c \in DOMAIN calls :
        IsUrlCall(calls[c]) =>
            /\ calls[c].result = "url" => calls[c].tok # 0
            /\ calls[c].failure = "auth" =>
                   calls[c].result = "thrown" /\ calls[c].tok = 0

C26_Step ==
    \A c \in DOMAIN calls' :
        (IsUrlCall(calls'[c]) /\ (c \notin DOMAIN calls \/ calls'[c] # calls[c])) =>
            /\ calls'[c].result = "url" =>
                   /\ calls'[c].tok = config'.authorizationToken
                   /\ calls'[c].tok # 0
                   /\ config.authorizationToken = 0 =>
                          /\ c \in DOMAIN calls
                          /\ calls[c].pc = "urlAuth"
            /\ (c \notin DOMAIN calls /\ config.authorizationToken = 0) =>
                   calls'[c].pc = "urlAuth"

\* C26: a URL returned by getDownloadUrlWithToken carries as Authorization
\* the non-empty token the session holds at that moment; a call made
\* without a session authenticates before it builds the URL, and throws,
\* returning no URL, when that authentication fails.
C26_UrlCarriesSessionToken == []C26_State /\ [][C26_Step]_vars

\* A first call threw on a failed authentication; a second call
\* authenticated and returned a URL with the new session's token.
C26_Witness ==
    /\ Len(calls) = 2
    /\ IsUrlCall(calls[1]) /\ calls[1].result = "thrown"
    /\ IsUrlCall(calls[2]) /\ calls[2].result = "url"
    /\ calls[2].tok = config.authorizationToken /\ calls[2].tok # 0

\* ------------------------------------------------------------------------
\* Properties of the upload phase of POST /b2/upload-hls
\* ------------------------------------------------------------------------

\* An upload task of the directory sync has not settled yet.
UploadInFlight ==
    \E c \in DOMAIN calls : calls[c].sync # 0 /\ calls[c].pc # "settled"

\* C29: while an upload task of the directory sync is in flight the handler
\* is still awaiting the sync and the output directory is in place: the rm
\* of the directory is issued only after every task has settled, failed
\* tasks included.
C29_NoRemovalDuringUpload ==
    UploadInFlight =>
        /\ route.pc = "sync"
        /\ route.outputDir = "present"
        /\ syncs[1].pc = "uploading"

\* The directory was removed after a sync in which one upload failed and
\* another succeeded.
C29_Witness ==
    /\ route.outputDir = "absent" /\ ~route.failed
    /\ route.pc \in {"respond", "done"}
    /\ Len(syncs) = 1
    /\ syncs[1].result.failedUploads # <<>>
    /\ syncs[1].result.successfulUploads # <<>>
    /\ ~UploadInFlight

\* C30: the directory sync, and with it every uploadFile call, is started
\* only by a request whose conversion resolved: a request whose conversion
\* was rejected never uploads anything.
C30_UploadOnlyAfterConversion ==
    /\ route.failed => syncs = <<>> /\ calls = <<>>
    /\ (syncs # <<>> \/ calls # <<>>) =>
           route.pc \notin {"idle", "converting"} /\ ~route.failed

\* A request whose conversion was rejected has been answered with the
\* error, and nothing was uploaded.
C30_Witness ==
    /\ route.failed /\ route.response = "error"
    /\ syncs = <<>> /\ calls = <<>>

\* ------------------------------------------------------------------------
\* Properties of the sync of an output directory
\* ------------------------------------------------------------------------

\* C31 (as claimed): whenever the master manifest is in the remote store,
\* the rendition playlist it refers to is there too.
C31_ManifestImpliesRenditions ==
    B2FileName(PrefixV, MasterRel) \in RemoteStore =>
        B2FileName(PrefixV, RenditionRel) \in RemoteStore

\* C32 (as claimed): a sync that returns success = true has uploaded every
\* regular file under the local root.
C32_SuccessMeansEveryFile ==
    \A s \in DOMAIN syncs :
        (syncs[s].pc = "returned" /\ syncs[s].result.success) =>
            \A rel \in RegularFiles :
                \E i \in DOMAIN syncs[s].result.successfulUploads :
                    syncs[s].result.successfulUploads[i].file =
                        B2FileName(syncs[s].b2Prefix, rel)

\* ------------------------------------------------------------------------
\* Properties of the ledger entries of uploadFile and of the session
\* ------------------------------------------------------------------------

\* The step in which the uploadFile invocation c returns.
UploadReturns(c) ==
    /\ c \in DOMAIN calls /\ calls[c].op = "uploadFile"
    /\ calls[c].pc # "returned" /\ calls'[c].pc = "returned"

\* C33 (as claimed): the step in which an uploadFile call returns appends
\* exactly one entry under the call's remote file name: a success entry
\* when it returns the file info, a failure entry when it returns null.
C33_OneEntryPerReturn ==
    [][\A c \in DOMAIN calls :
          UploadReturns(c) =>
              uploadHistory' =
                  LogUpload(uploadHistory, calls[c].fileName,
                            IF calls'[c].result = "data"
                            THEN SuccessEntry(calls[c].fileName, c)
                            ELSE FailureEntry(calls[c].fileName, c))]_vars

\* The ledger positions (key, index) holding the entry recorded by
\* invocation c.
LedgerEntriesOf(c) ==
    { <<k, i>> \in UNION { {k} \X DOMAIN uploadHistory[k] : k \in DOMAIN uploadHistory } :
          uploadHistory[k][i].id = c }

\* The uploadFile invocation c has returned after recording its outcome.
Recorded(c) ==
    /\ calls[c].op = "uploadFile"
    /\ calls[c].pc \in {"returned", "settled"}
    /\ calls[c].failure # "auth"

\* C34 (as claimed): every upload that has completed and recorded its
\* outcome is represented by exactly one ledger entry, whatever the
\* interleaving of uploads of the same remote key.
C34_NoEntryLostOrDuplicated ==
    \A c \in DOMAIN calls :
        Recorded(c) => Cardinality(LedgerEntriesOf(c)) = 1

\* The entry of a direct upload was deleted by the migration of a sync
\* task's own entry recorded after it under the same key.
C34_LostByMigration ==
    \E d, t \in DOMAIN calls :
        /\ calls[d].sync = 0 /\ Recorded(d) /\ LedgerEntriesOf(d) = {}
        /\ calls[t].sync # 0 /\ calls[t].pc = "settled"
        /\ calls[t].fileName = calls[d].fileName
        /\ LedgerEntriesOf(t) = { <<syncs[calls[t].sync].b2Prefix, 1>> }

\* C35: the three session fields are all empty, or all carry the values of
\* one and the same authorization response.
C35_SessionConsistent ==
    /\ config.apiUrl = config.authorizationToken
    /\ config.downloadUrl = config.authorizationToken
    /\ config.authorizationToken \in 0..(MaxExpirations + 1)

\* Two invocations authenticated concurrently, one before and one after a
\* token expiry; the session is the one of the later response.
C35_Witness ==
    /\ config = [apiUrl |-> 2, authorizationToken |-> 2, downloadUrl |-> 2]
    /\ Len(calls) = 2
    /\ \A c \in DOMAIN calls : calls[c].apiRequests >= 1

\* ------------------------------------------------------------------------
\* Properties of the names of renditions and of remote keys
\* ------------------------------------------------------------------------

\* C36: the planned renditions of a run have pairwise distinct names, so the
\* jobs write to pairwise distinct subdirectories <outputDir>/<name>.
C36_DistinctRenditionNames ==
    PlanMade =>
        \A i, j \in DOMAIN targetResolutions :
            i # j => targetResolutions[i].name # targetResolutions[j].name

\* The jobs of a 1000x720 source (the height of the 720p rendition with
\* another width) were launched: "480p" and the source copy "720p".
C36_Witness ==
    /\ hpc = "awaitJobs"
    /\ source.probe.width = 1000 /\ source.probe.height = 720
    /\ Len(targetResolutions) = 2
    /\ targetResolutions[1].name = "480p"
    /\ targetResolutions[2].name = "720p" /\ targetResolutions[2].isOriginal

\* C37 (as claimed): two distinct local files of one directory sync are
\* given distinct remote keys.
C37_InjectiveKeys ==
    (keyed.via = "sync" /\ keyed.segments # keyed.otherSegments) =>
        keyed.b2FileName # keyed.otherB2FileName

\* ------------------------------------------------------------------------
\* Properties of the catalog-indexed definition of convertToHls
\* ------------------------------------------------------------------------

\* C38 (as claimed): every conversion that was called eventually resolves
\* or rejects, when every operation it awaits eventually answers.
C38_EventuallySettles ==
    \A v \in 1..MaxVideos :
        (conv[v].pc # "idle") ~> (conv[v].pc \in {"resolved", "rejected"})

\* The conversion of video v has saved its catalog entry.
EntrySaved(v) == conv[v].pc \in {"indexedDir", "awaitJobs", "writing", "resolved"}

\* C39 (as claimed): conversions of different videos obtain different
\* folder indexes, and the catalog holds exactly one entry for every video
\* whose conversion has saved its entry.
C39_DistinctFolderIndexes ==
    /\ \A v, w \in 1..MaxVideos :
           (v # w /\ conv[v].folderIndex # -1 /\ conv[w].folderIndex # -1) =>
               conv[v].folderIndex # conv[w].folderIndex
    /\ \A v \in 1..MaxVideos :
           EntrySaved(v) =>
               Cardinality({ i \in DOMAIN catalog : catalog[i].videoId = v }) = 1

====
